---- MODULE Spec2Model ----
(***************************************************************************)
(* rtlamr multi-scan suite: the scan orchestration of rtlamr_multi_scan.py *)
(* (main, run_cycle, run_rtlamr_for_freq, read_stderr) as a state machine. *)
(* Frequencies are carried as integers in units of 0.2 kHz, five to the    *)
(* kHz (910.200 MHz = kHz(910200) = 4551000), so that a frequency can have *)
(* a part below the kHz and rounding to the kHz never meets a tie.         *)
(* The decoder child is a black box that writes lines to two bounded pipes *)
(* and exits when it chooses; the operator's Ctrl-C is a KeyboardInterrupt *)
(* delivered to the main thread between any two steps.                    *)
(***************************************************************************)
EXTENDS Integers, Sequences, FiniteSets, TLC

\* ---------------------------------------------------------------- bounds
\* Stdout lines the children write at most, all together.
MaxOut == 2
\* Diagnostic lines the children write at most, all together.
MaxErr == 1
\* Decoder processes one run of the scanner launches at most.
MaxDwells == 2
\* Capacity of each pipe, in lines.
PipeCap == 1
\* Lines of a summary.txt handed to the analyzer at most.
MaxLines == 4

\* ---------------------------------------------------------------- inputs
\* n kHz in the unit of the model.
kHz(n) == 5 * n

\* round(f, 3) and f"{f:.3f}": the nearest kHz.
round3(f) == ((f + 2) \div 5) * 5

\* Line 82: freqs.append(round(f, 3))
ism_entry_Exact(f) == f

ism_entry(f) == round3(f)

RECURSIVE ism_loop(_, _, _)
\* Lines 81-83: the loop from f on.  The epsilon of line 81 (1e-9 MHz) is
\* far below the unit of the model and takes up the error of the float
\* additions, which the model does not have: f <= max_mhz decides.
ism_loop(f, max_mhz, step_mhz) ==
    IF f <= max_mhz
      THEN <<ism_entry(f)>> \o ism_loop(f + step_mhz, max_mhz, step_mhz)
      ELSE <<>>

\* Lines 64-84.  The outcome and the list.
build_ism_freqs_mhz_Window(min_mhz, max_mhz, step_khz) ==
    IF step_khz <= 0 \/ min_mhz >= max_mhz
      THEN [out |-> "ValueError", freqs |-> <<>>]
      ELSE [out |-> "returned", freqs |-> ism_loop(min_mhz, max_mhz, step_khz)]

build_ism_freqs_mhz(min_mhz, max_mhz, step_khz) ==
    IF step_khz <= 0
      THEN [out |-> "ValueError", freqs |-> <<>>]
      ELSE [out |-> "returned", freqs |-> ism_loop(min_mhz, max_mhz, step_khz)]

\* default_core_freqs_mhz()
default_core_freqs_mhz ==
    <<kHz(910200), kHz(911500), kHz(912380), kHz(914000), kHz(915500),
      kHz(916600), kHz(918000)>>

\* The plans resolve_core_freqs_mhz may hand to main: "--freqs 910.2", and
\* "--freqs 910.2004,910.2002", two frequencies of one kHz.
Plans == {<<kHz(910200)>>, <<kHz(910200) + 2, kHz(910200) + 1>>}

\* A stdout line of the decoder.  pad: the line carries leading or trailing
\* whitespace besides its newline.  kind: blank (whitespace only), nonjson
\* (json.loads fails), nonobject (JSON, but no dict), object.  typ: the value
\* of "Type" ("" when the key is absent, " " a string of one blank).  idk: what meter.get("ID") finds:
\* missing (None), bad (int() raises), int (then id is the value).
Line(p, k, t, ik, i) == [pad |-> p, kind |-> k, typ |-> t, idk |-> ik, id |-> i]

NoLine == Line(FALSE, "none", "", "missing", 0)

Lines ==
    { Line(TRUE, "blank", "", "missing", 0),
      Line(TRUE, "nonjson", "", "missing", 0),
      Line(FALSE, "nonobject", "", "missing", 0),
      Line(FALSE, "object", "SCM", "missing", 0),
      Line(FALSE, "object", "idm", "bad", 0),
      Line(FALSE, "object", "SCM", "int", 1),
      Line(TRUE, "object", "idm", "int", 1),
      Line(FALSE, "object", "", "int", 2),
      Line(FALSE, "object", " ", "int", 2) }

\* A line of the diagnostic stream: quiet (blank, or startup noise without
\* any of ERROR_KEYWORDS), or error (a line that holds one of them).
DiagLines == {"quiet", "error"}

\* accepted_msgtypes as compute_msgtype_config returns it: None, or a
\* non-empty set of upper-case type names.
NoneFilter == [some |-> FALSE, types |-> {}]

\* --msgtype, given by its pieces between the commas: "" (empty), "all"
\* (the default), "ALL", " ,", "all,", "scm", " scm," and "SCM".
MsgtypeArgs ==
    { <<"">>, <<"all">>, <<"ALL">>, <<" ", "">>, <<"all", "">>, <<"scm">>,
      <<" scm", "">>, <<"SCM">> }

\* ---------------------------------------------------------------- helpers
\* collections.Counter / defaultdict(int):  d[k] += 1
Inc(d, k) == IF k \in DOMAIN d THEN [d EXCEPT ![k] = @ + 1] ELSE d @@ (k :> 1)

\* d.get(k, 0)
Get0(d, k) == IF k \in DOMAIN d THEN d[k] ELSE 0

EmptyMap == [k \in {} |-> 0]

RECURSIVE SumOver(_, _)
SumOver(d, ks) ==
    IF ks = {} THEN 0
    ELSE LET k == CHOOSE x \in ks : TRUE IN d[k] + SumOver(d, ks \ {k})

\* sum(d.values())
SumValues(d) == SumOver(d, DOMAIN d)

\* str.upper() on the type names that occur.
upper(t) ==
    CASE t = "idm" -> "IDM"
      [] t = "scm" -> "SCM"
      [] t = "all" -> "ALL"
      [] OTHER -> t

\* compute_msgtype_config with "all" always passed to the decoder.
compute_msgtype_config_AllToDecoder(raw_arg) ==
    LET strip_(p) == CASE p = " " -> "" [] p = " scm" -> "scm" [] OTHER -> p
        lower_(p) == CASE p = "ALL" -> "all" [] p = "SCM" -> "scm" [] OTHER -> p
        stripped == [i \in DOMAIN raw_arg |-> strip_(raw_arg[i])]
        parts == SelectSeq(stripped, LAMBDA p : p # "")
    IN IF raw_arg = <<"">> \/ parts = <<>>
         THEN [msgtype_arg |-> <<"all">>, accepted |-> NoneFilter]
       ELSE IF Len(raw_arg) = 1 /\ lower_(stripped[1]) = "all"
         THEN [msgtype_arg |-> <<"all">>, accepted |-> NoneFilter]
       ELSE [msgtype_arg |-> <<"all">>,
             accepted |-> [some |-> TRUE,
                           types |-> {upper(parts[i]) : i \in DOMAIN parts}]]

\* compute_msgtype_config, lines 94-125.  raw_arg: the pieces of --msgtype
\* between its commas (<<"">> for the empty string); strip_ and lower_ are
\* str.strip() and str.lower() on the pieces that occur.  msgtype_arg: the
\* parts that ",".join puts together for rtlamr's -msgtype.
compute_msgtype_config(raw_arg) ==
    LET strip_(p) == CASE p = " " -> "" [] p = " scm" -> "scm" [] OTHER -> p
        lower_(p) == CASE p = "ALL" -> "all" [] p = "SCM" -> "scm" [] OTHER -> p
        stripped == [i \in DOMAIN raw_arg |-> strip_(raw_arg[i])]
        parts == SelectSeq(stripped, LAMBDA p : p # "")
    IN IF raw_arg = <<"">> \/ parts = <<>>
         THEN [msgtype_arg |-> <<"all">>, accepted |-> NoneFilter]
       ELSE IF Len(raw_arg) = 1 /\ lower_(stripped[1]) = "all"
         THEN [msgtype_arg |-> <<"all">>, accepted |-> NoneFilter]
       ELSE [msgtype_arg |-> parts,
             accepted |-> [some |-> TRUE,
                           types |-> {upper(parts[i]) : i \in DOMAIN parts}]]

\* line.strip(): removes the surrounding whitespace.
strip(l) == [l EXCEPT !.pad = FALSE]

\* msg_type = str(msg.get("Type", "UNKNOWN")).upper()
msg_type(l) == IF l.typ = "" THEN "UNKNOWN" ELSE upper(l.typ)

\* raw_log_fp.write(line + "\n")
raw_log_write_NotMalformed(fp, l) == IF l.kind = "nonjson" THEN fp ELSE Append(fp, l)

raw_log_write(fp, l) == Append(fp, l)

\* The internal filter of line 263: TRUE when the record is skipped.
internal_filter_Off(acc, t) == FALSE

internal_filter(acc, t) == acc.some /\ t \notin acc.types

\* What lines 248-266 do with a stripped, logged line:
\*   "continue" (skipped), "raise" (an exception other than
\*   KeyboardInterrupt leaves the loop), "accept" (lines 268-287 follow).
decode(l, acc) ==
    IF l.kind = "nonjson" THEN "continue"
    ELSE IF l.kind = "nonobject" THEN "raise"
    ELSE IF l.idk = "missing" THEN "continue"
    ELSE IF internal_filter(acc, msg_type(l)) THEN "continue"
    ELSE IF l.idk = "bad" THEN "raise"
    ELSE "accept"

\* Lines 273-279: the entry of a radio seen for the first time.  nth is its
\* place in the dict, which keeps its keys in insertion order.
new_radio(rs, id, t) ==
    IF id \in DOMAIN rs THEN rs
    ELSE rs @@ (id :> [id |-> id, type |-> t, count |-> 0, freqs |-> EmptyMap,
                       nth |-> Cardinality(DOMAIN rs) + 1])

\* Line 282: rstats["count"] = int(rstats["count"]) + 1
inc_count(rs, id) == [rs EXCEPT ![id].count = @ + 1]

\* Line 283: rstats["type"] = msg_type
set_type_Keep(rs, id, t) == rs

set_type(rs, id, t) == [rs EXCEPT ![id].type = t]

\* Line 284: rstats["freqs"][center_freq_mhz] += 1
inc_radio_freq_Skip(rs, id, f) == rs

inc_radio_freq(rs, id, f) == [rs EXCEPT ![id].freqs = Inc(@, f)]

\* Line 286: center_totals[center_freq_mhz] += 1
inc_center_totals_Skip(ct, f) == ct

inc_center_totals(ct, f) == Inc(ct, f)

\* Line 287: type_totals[msg_type] += 1
inc_type_totals(tt, t) == Inc(tt, t)

\* ------------------------------------------------------------ summary.txt
\* A whitespace-separated token of a line of text.  t: "int" (int() and
\* float() accept it), "dec" (a decimal number: float() accepts it, int()
\* raises ValueError), "word" (both raise).  n: the number, for "dec" a
\* frequency in the unit of the model.  s: the text of a word.
Tok(t, n, s) == [t |-> t, n |-> n, s |-> s]

IntTok(n) == Tok("int", n, "")

DecTok(n) == Tok("dec", n, "")

Word(s) == Tok("word", 0, s)

\* A line of summary.txt.  head: how the line begins,
\*   "per_radio"  line.strip() starts with "=== Per-Radio Summary"
\*   "strongest"  line.strip() starts with "=== Strongest Center Frequencies"
\*   "near"       the line starts with "===" and line.strip() starts with
\*                "=== Per-Radio" or "=== Strongest Center", but with neither
\*                of the two markers above
\*   "other"      the line starts with "===" otherwise
\*   "indented"   whitespace, then "===" and none of the two markers
\*   "blank", "total" (line.strip() starts with "Total"), "dashes", "data".
\* parts: line.split().
TextLine(h, ps) == [head |-> h, parts |-> ps]

\* f"{fq:.3f}": a frequency to three decimals.
fmt3(f) == DecTok(round3(f))

\* f"{cfreq:0.6f}": a frequency to six decimals, which keeps every
\* frequency of the model as it is.
fmt6(f) == DecTok(f)

\* The strongest radio of ids: highest count, and among equals the one that
\* entered the dict first (sorted is stable).
strongest_radio(rs, ids) ==
    CHOOSE a \in ids : \A b \in ids \ {a} :
        \/ rs[a].count > rs[b].count
        \/ rs[a].count = rs[b].count /\ rs[a].nth < rs[b].nth

RECURSIVE sorted_radios(_, _)
\* Lines 342-346: the ids of the radios by descending count.
sorted_radios(rs, ids) ==
    IF ids = {} THEN <<>>
    ELSE LET a == strongest_radio(rs, ids) IN
           <<a>> \o sorted_radios(rs, ids \ {a})

\* The place of frequency f in the plan: center_totals gets its keys in the
\* order of the dwells.
plan_index(plan, f) == CHOOSE i \in DOMAIN plan : plan[i] = f

RECURSIVE sorted_centers(_, _, _)
\* Lines 349-353: the frequencies by descending total; equal totals stay
\* in the order of the dict.
sorted_centers(ct, fs, plan) ==
    IF fs = {} THEN <<>>
    ELSE LET a == CHOOSE x \in fs : \A y \in fs \ {x} :
                      \/ ct[x] > ct[y]
                      \/ ct[x] = ct[y] /\ plan_index(plan, x) < plan_index(plan, y)
         IN <<a>> \o sorted_centers(ct, fs \ {a}, plan)

RECURSIVE sorted_types(_, _)
\* Line 390: the types by descending total.  (Equal totals stay in the order
\* of first receipt, which type_totals does not carry here; no reader of the
\* report parses these rows.)
sorted_types(tt, ts) ==
    IF ts = {} THEN <<>>
    ELSE LET a == CHOOSE x \in ts : \A y \in ts \ {x} : tt[x] >= tt[y] IN
           <<a>> \o sorted_types(tt, ts \ {a})

RECURSIVE sorted_freqs(_)
\* Line 374: sorted(freqs_counter.keys())
sorted_freqs(fs) ==
    IF fs = {} THEN <<>>
    ELSE LET a == CHOOSE x \in fs : \A y \in fs : x <= y IN
           <<a>> \o sorted_freqs(fs \ {a})

\* A string field of a row as line.split() finds it again: a field that is
\* empty or all whitespace leaves no token.
field(s) == IF s \in {"", " "} THEN <<>> ELSE <<Word(s)>>

\* Lines 367-379: the row of a radio.
radio_row(r) ==
    LET fl == sorted_freqs(DOMAIN r.freqs) IN
      TextLine("data", <<IntTok(r.count), IntTok(Cardinality(DOMAIN r.freqs)),
                         IntTok(r.id)>>
                       \o field(r.type)
                       \o [i \in 1..Len(fl) |-> fmt3(fl[i])])

\* Line 385: the row of a center frequency.
center_row(ct, f) == TextLine("data", <<IntTok(ct[f]), fmt6(f)>>)

\* Line 391: the row of a message type.
type_row(tt, t) == TextLine("data", field(t) \o <<IntTok(tt[t])>>)

BlankLine == TextLine("blank", <<>>)

DashesLine == TextLine("dashes", <<Word("-----")>>)

\* Lines 361-395: the lines of summary.txt.
summary_txt(rs, ct, tt, plan) ==
    LET sr == sorted_radios(rs, DOMAIN rs)
        sc == sorted_centers(ct, DOMAIN ct, plan)
        st == sorted_types(tt, DOMAIN tt)
    IN  <<TextLine("per_radio", <<Word("==="), Word("Per-Radio")>>),
          TextLine("total", <<Word("Total"), Word("Freqs")>>),
          DashesLine>>
        \o [i \in 1..Len(sr) |-> radio_row(rs[sr[i]])]
        \o <<BlankLine,
             TextLine("strongest", <<Word("==="), Word("Strongest")>>),
             TextLine("total", <<Word("Total"), Word("CenterFreq")>>),
             DashesLine>>
        \o [i \in 1..Len(sc) |-> center_row(ct, sc[i])]
        \o <<BlankLine,
             TextLine("other", <<Word("==="), Word("Message")>>),
             TextLine("data", <<Word("Type"), Word("Total")>>),
             DashesLine>>
        \o [i \in 1..Len(st) |-> type_row(tt, st[i])]
        \o (IF sr = <<>> THEN <<>>
            ELSE <<BlankLine,
                   TextLine("data", <<Word("[*]"), Word("Suggested")>>),
                   BlankLine,
                   TextLine("data", <<Word("rtlamr"), Word("-filterid="),
                                      IntTok(sr[1])>>)>>)

\* ------------------------------------------------- rtlamr_scan_analyzer.py
\* int(x) raises ValueError unless the token is an integer.
int_ok(tok) == tok.t = "int"

\* float(x) raises ValueError unless the token is a number.
float_ok(tok) == tok.t \in {"int", "dec"}

\* float(x) of a number token, as a frequency: "916" is 916 MHz.
to_float(tok) == IF tok.t = "dec" THEN tok.n ELSE kHz(1000 * tok.n)

\* d[k] = v
Put(d, k, v) == [x \in DOMAIN d \cup {k} |-> IF x = k THEN v ELSE d[x]]

\* Lines 139-148: the CenterFreqs column, chunk by chunk (a token of the
\* column is a chunk); a chunk float() rejects is passed over.
parse_center_freqs(chunks) ==
    LET ok == SelectSeq(chunks, float_ok) IN
      [i \in 1..Len(ok) |-> to_float(ok[i])]

\* Radio.__init__, lines 48-61.  assigned_core_freq_mhz: <<>> is None.
Radio(id, type, total, nfreqs, freqs) ==
    [id |-> id, type |-> type, total_messages |-> total,
     freqs_count |-> nfreqs, center_freqs_mhz |-> freqs,
     assigned_core_freq_mhz |-> <<>>]

\* Lines 118-156: a row of the per-radio section.
parse_radio_row(rs, parts) ==
    IF Len(parts) < 5 THEN rs
    ELSE IF ~(int_ok(parts[1]) /\ int_ok(parts[2])) THEN rs
    ELSE Put(rs, parts[3],
             Radio(parts[3], parts[4], parts[1].n, parts[2].n,
                   parse_center_freqs(SubSeq(parts, 5, Len(parts)))))

\* Lines 158-170: a row of the frequency-totals section.
parse_freq_row_Loose(ft, parts) ==
    IF Len(parts) < 2 THEN ft
    ELSE IF ~(int_ok(parts[1]) /\ float_ok(parts[2])) THEN ft
    ELSE Put(ft, to_float(parts[2]), parts[1].n)

parse_freq_row(ft, parts) ==
    IF Len(parts) # 2 THEN ft
    ELSE IF ~(int_ok(parts[1]) /\ float_ok(parts[2])) THEN ft
    ELSE Put(ft, to_float(parts[2]), parts[1].n)

\* Lines 93-108: the section after the line ("none" is None).
next_section(sec, l) ==
    CASE l.head = "per_radio" -> "per_radio"
      [] l.head = "strongest" -> "freq_totals"
      [] l.head = "other" -> "none"
      [] OTHER -> sec

\* Lines 93-116: the line is a row to parse: it is neither of the two
\* markers (continue at lines 96 and 100), a section is open, and the line
\* is not blank, not a "Total" header and not dashes.
is_row(sec, l) ==
    /\ l.head \notin {"per_radio", "strongest"}
    /\ next_section(sec, l) # "none"
    /\ l.head \notin {"blank", "total", "dashes"}

\* Lines 89-170: one pass of the loop over the lines.
parse_line(st, l) ==
    LET sec == next_section(st.section, l) IN
      [section |-> sec,
       radios |-> IF is_row(st.section, l) /\ sec = "per_radio"
                    THEN parse_radio_row(st.radios, l.parts) ELSE st.radios,
       freq_totals |-> IF is_row(st.section, l) /\ sec = "freq_totals"
                         THEN parse_freq_row(st.freq_totals, l.parts)
                         ELSE st.freq_totals]

RECURSIVE parse_lines(_, _)
\* Lines 84-170: the loop over all lines of the file.
parse_lines(st, ls) ==
    IF ls = <<>> THEN st ELSE parse_lines(parse_line(st, Head(ls)), Tail(ls))

\* Lines 84-87: the state before the first line.
parse_start ==
    [section |-> "none", radios |-> EmptyMap, freq_totals |-> EmptyMap]

\* Lines 172-177: what parse_summary does after the loop.
parse_outcome_RadiosOnly(rs, ft) ==
    IF DOMAIN rs = {} THEN "NoRadios" ELSE "returned"

parse_outcome(rs, ft) ==
    IF DOMAIN rs = {} THEN "NoRadios"
    ELSE IF DOMAIN ft = {} THEN "NoTotals"
    ELSE "returned"

RECURSIVE sorted_items_ByFreq(_, _)
\* Lines 186-189: the frequencies by (-total, frequency).
sorted_items_ByFreq(ft, fs) ==
    IF fs = {} THEN <<>>
    ELSE LET a == CHOOSE x \in fs : \A y \in fs \ {x} : x < y
         IN <<a>> \o sorted_items_ByFreq(ft, fs \ {a})

RECURSIVE sorted_items(_, _)
sorted_items(ft, fs) ==
    IF fs = {} THEN <<>>
    ELSE LET a == CHOOSE x \in fs : \A y \in fs \ {x} :
                      ft[x] > ft[y] \/ (ft[x] = ft[y] /\ x < y)
         IN <<a>> \o sorted_items(ft, fs \ {a})

\* s[:k]
slice_to(s, k) ==
    IF k >= 0 THEN SubSeq(s, 1, IF k < Len(s) THEN k ELSE Len(s))
    ELSE SubSeq(s, 1, Len(s) + k)

\* Lines 180-191.
choose_core_frequencies(ft, k) == slice_to(sorted_items(ft, DOMAIN ft), k)

\* main, line 411: core_count = max(1, int(args.core_count))
clamp_core_count(k) == IF k < 1 THEN 1 ELSE k

abs(x) == IF x < 0 THEN -x ELSE x

\* Line 225: abs(f - cf) < 1e-6, in MHz; 1e-6 MHz is 1/200 of the unit.
near(f, cf) == abs(f - cf) * 200 < 1

RECURSIVE intersect(_, _)
\* Lines 222-227: for each observed frequency, the first core frequency
\* near it.
intersect(fs, core) ==
    IF fs = <<>> THEN <<>>
    ELSE LET hits == SelectSeq(core, LAMBDA cf : near(Head(fs), cf)) IN
           (IF hits = <<>> THEN <<>> ELSE <<hits[1]>>) \o intersect(Tail(fs), core)

\* freq_totals.get(cf, 0)
total_of(ft, cf) == IF cf \in DOMAIN ft THEN ft[cf] ELSE 0

\* Lines 231-234: max(intersect, key=(total, cf)).
strongest_hit_First(hits, ft) == hits[1]

strongest_hit(hits, ft) ==
    LET hs == {hits[i] : i \in DOMAIN hits} IN
      CHOOSE a \in hs : \A b \in hs \ {a} :
          \/ total_of(ft, a) > total_of(ft, b)
          \/ total_of(ft, a) = total_of(ft, b) /\ a > b

RECURSIVE sum_seq(_)
sum_seq(q) == IF q = <<>> THEN 0 ELSE Head(q) + sum_seq(Tail(q))

\* abs(cf - mean_f) of lines 237-238, times the number of observed
\* frequencies: comparing these compares the distances.
mean_distance(cf, fs) == abs(Len(fs) * cf - sum_seq(fs))

\* Lines 237-238: min(core_freqs, key=distance): the first of the nearest.
nearest_to_mean_Mean(core, fs) == sum_seq(fs) \div Len(fs)

nearest_to_mean(core, fs) ==
    LET i == CHOOSE i \in DOMAIN core :
                 /\ \A j \in DOMAIN core :
                        mean_distance(core[i], fs) <= mean_distance(core[j], fs)
                 /\ \A j \in 1..(i - 1) :
                        mean_distance(core[j], fs) > mean_distance(core[i], fs)
    IN core[i]

\* Lines 217-238: the core frequency of a radio.
assigned_core_LastCore(r, core, ft) ==
    IF r.center_freqs_mhz = <<>> THEN core[1]
    ELSE IF intersect(r.center_freqs_mhz, core) # <<>>
      THEN strongest_hit(intersect(r.center_freqs_mhz, core), ft)
    ELSE core[Len(core)]

assigned_core(r, core, ft) ==
    IF r.center_freqs_mhz = <<>> THEN core[1]
    ELSE IF intersect(r.center_freqs_mhz, core) # <<>>
      THEN strongest_hit(intersect(r.center_freqs_mhz, core), ft)
    ELSE nearest_to_mean(core, r.center_freqs_mhz)

RECURSIVE digits(_)
\* str(n) for n >= 0, as character codes ("0" is 48).
digits(n) == IF n < 10 THEN <<48 + n>> ELSE digits(n \div 10) \o <<48 + (n % 10)>>

\* The text of a token that stands in the ID column, as character codes.
chars(tok) ==
    CASE tok.t = "int" /\ tok.n >= 0 -> digits(tok.n)
      [] tok.t = "int" /\ tok.n < 0 -> <<45>> \o digits(-tok.n)
      [] tok.t = "word" /\ tok.s = "SCM" -> <<83, 67, 77>>
      [] tok.t = "word" /\ tok.s = "x" -> <<120>>

RECURSIVE str_less(_, _)
\* a < b for two str, given as character codes.
str_less(a, b) ==
    IF b = <<>> THEN FALSE
    ELSE IF a = <<>> THEN TRUE
    ELSE IF Head(a) # Head(b) THEN Head(a) < Head(b)
    ELSE str_less(Tail(a), Tail(b))

\* The key (-total_messages, id) of radio x is below that of radio y.
radio_before_Numeric(rs, x, y) ==
    \/ rs[x].total_messages > rs[y].total_messages
    \/ /\ rs[x].total_messages = rs[y].total_messages
       /\ x.n < y.n

radio_before(rs, x, y) ==
    \/ rs[x].total_messages > rs[y].total_messages
    \/ /\ rs[x].total_messages = rs[y].total_messages
       /\ str_less(chars(x), chars(y))

RECURSIVE sorted_by_total(_, _)
\* Line 245: list.sort(key=(-total_messages, id)), a stable sort, on a list
\* of radio ids: the head goes in after those of the sorted rest that are
\* below it.
sorted_by_total(rs, q) ==
    IF q = <<>> THEN <<>>
    ELSE LET rest == sorted_by_total(rs, Tail(q))
                 n == Cardinality({i \in DOMAIN rest :
                                  \A j \in 1..i : radio_before(rs, rest[j], Head(q))})
         IN SubSeq(rest, 1, n) \o <<Head(q)>> \o SubSeq(rest, n + 1, Len(rest))

\* The members of a list.
members(q) == {q[i] : i \in DOMAIN q}

\* Lines 240-241 for one radio: the core frequency is stored in the Radio,
\* and the radio is appended to the list of that frequency.
assign_one_FirstList(st, id, core, ft) ==
    LET cf == assigned_core(st.radios[id], core, ft) IN
      [radios |-> [st.radios EXCEPT ![id].assigned_core_freq_mhz = <<cf>>],
       by_core |-> [st.by_core EXCEPT ![core[1]] = Append(@, id)]]

assign_one(st, id, core, ft) ==
    LET cf == assigned_core(st.radios[id], core, ft) IN
      [radios |-> [st.radios EXCEPT ![id].assigned_core_freq_mhz = <<cf>>],
       by_core |-> [st.by_core EXCEPT ![cf] = Append(@, id)]]

RECURSIVE assign_all(_, _, _, _)
\* Lines 216-241: the loop over radios.values().  (The dict is walked in
\* insertion order; the lists are sorted afterwards by a total order, so
\* the order of the walk does not show in the result.)
assign_all(st, ids, core, ft) ==
    IF ids = {} THEN st
    ELSE LET id == CHOOSE x \in ids : TRUE IN
           assign_all(assign_one(st, id, core, ft), ids \ {id}, core, ft)

\* Lines 211-247.  by_core holds the ids of the Radio objects.
assign_core_to_radios(rs, core, ft) ==
    IF core = <<>> THEN [radios |-> rs, by_core |-> EmptyMap]
    ELSE LET st == assign_all([radios |-> rs,
                               by_core |-> [cf \in members(core) |-> <<>>]],
                              DOMAIN rs, core, ft)
         IN [radios |-> st.radios,
             by_core |-> [cf \in DOMAIN st.by_core |->
                             sorted_by_total(st.radios, st.by_core[cf])]]

\* -------------------------------------------------------- core_freqs.json
\* An entry of the "core_freqs" list of the file.  freq_mhz is the JSON value
\* under "freq_mhz" as a token: a number, or something float() rejects (a
\* word; for a missing key the lookup raises KeyError, with the same end).
Entry(rank, freq_mhz, total, ids) ==
    [rank |-> rank, freq_mhz |-> freq_mhz, total_messages |-> total,
     radio_ids |-> ids]

\* A file at the path of --core-json.  kind: "missing" (open fails),
\* "malformed" (json.load fails), "array" (JSON, but no object), "object"
\* (then core_freqs is the list under "core_freqs", empty without the key).
CoreFile(kind, entries) == [kind |-> kind, core_freqs |-> entries]

\* json.dumps writes a float so that float() reads the same float back.
json_number(f) == DecTok(f)

\* write_core_freqs_json, lines 258-276: the file written.
write_core_freqs_json(core, ft, rbc) ==
    CoreFile("object",
             [i \in DOMAIN core |->
                 Entry(i, json_number(core[i]), Get0(ft, core[i]),
                       IF core[i] \in DOMAIN rbc THEN rbc[core[i]] ELSE <<>>)])

\* Lines 563-568: the entries float() accepts, in the order of the file.
usable_freqs_Reversed(entries) ==
    LET ok == SelectSeq(entries, LAMBDA e : float_ok(e.freq_mhz)) IN
      [i \in 1..Len(ok) |-> to_float(ok[Len(ok) + 1 - i].freq_mhz)]

usable_freqs(entries) ==
    LET ok == SelectSeq(entries, LAMBDA e : float_ok(e.freq_mhz)) IN
      [i \in 1..Len(ok) |-> to_float(ok[i].freq_mhz)]

\* load_core_freqs_from_json, lines 552-575.  out: "exit" (sys.exit(1)),
\* "crash" (data.get at line 560 raises AttributeError, which nothing
\* catches: traceback and exit status 1), "returned".
load_core_freqs_from_json(file) ==
    IF file.kind \in {"missing", "malformed"}
      THEN [out |-> "exit", freqs |-> <<>>]
    ELSE IF file.kind = "array"
      THEN [out |-> "crash", freqs |-> <<>>]
    ELSE IF usable_freqs(file.core_freqs) = <<>>
      THEN [out |-> "exit", freqs |-> <<>>]
    ELSE [out |-> "returned", freqs |-> usable_freqs(file.core_freqs)]

\* parse_freq_list, lines 525-534.  The string is given by its parts
\* between the commas, blank parts left out.
parse_freq_list(parts) ==
    LET ok == SelectSeq(parts, float_ok) IN
      [i \in 1..Len(ok) |-> to_float(ok[i])]

\* resolve_core_freqs_mhz with the manual list ahead of the file.
resolve_core_freqs_mhz_ManualFirst(core_json, freq_str) ==
    IF freq_str # <<>> /\ parse_freq_list(freq_str) # <<>>
      THEN [out |-> "returned", freqs |-> parse_freq_list(freq_str)]
    ELSE IF core_json # <<>> THEN load_core_freqs_from_json(core_json[1])
    ELSE [out |-> "returned", freqs |-> default_core_freqs_mhz]

\* resolve_core_freqs_mhz, lines 578-606.  core_json: <<>> when --core-json
\* is not given (the empty string), else <<file>>.  freq_str: the parts of
\* --freqs, <<>> when it is not given.
resolve_core_freqs_mhz(core_json, freq_str) ==
    IF core_json # <<>> THEN load_core_freqs_from_json(core_json[1])
    ELSE IF freq_str # <<>> /\ parse_freq_list(freq_str) # <<>>
      THEN [out |-> "returned", freqs |-> parse_freq_list(freq_str)]
    ELSE [out |-> "returned", freqs |-> default_core_freqs_mhz]

\* No core_freqs.json is written or loaded.  file: <<>> or <<the file>>;
\* loaded: what load_core_freqs_from_json did with it.
NoRecommend ==
    [file |-> <<>>, loaded |-> [out |-> "none", freqs |-> <<>>]]

\* ---------------------------------------------------------------- state
VARIABLES
    pc,                \* where the main thread is (see the actions)
    exit,              \* "running", or how main ended: ok, interrupted, crashed
    once,              \* args.once
    accepted_msgtypes, \* the internal filter
    msgtype_arg,       \* the value of rtlamr's -msgtype, by its parts
    core_freqs,        \* the frequencies of a cycle
    cycle,             \* number of the current cycle, from 1
    idx,               \* enumerate index of the current frequency, from 1
    radios,            \* run_cycle's radios dict
    center_totals,     \* run_cycle's center_totals
    type_totals,       \* run_cycle's type_totals
    raw_log,           \* the lines of the cycle's raw.jsonl
    summary,           \* the summary.txt files written so far, one per cycle
    proc,              \* the child of the current dwell
    orphans,           \* children of earlier dwells that are still running
    dwells,            \* children launched so far
    outPipe,           \* stdout pipe of the current child
    outClosed,         \* the write end of the current stdout pipe is closed
    outSent,           \* stdout lines written by children so far
    errPipe,           \* stderr pipe of the current child
    errSent,           \* stderr lines written by children so far
    t_err,             \* the read_stderr thread of the current dwell
    old_threads,       \* read_stderr threads of earlier dwells still running
    printed,           \* diagnostic lines echoed by read_stderr
    line,              \* the line the loop body is working on
    num_messages,      \* per-dwell message counter
    local_radios,      \* per-dwell radio set
    types_seen,        \* per-dwell type set
    exc,               \* the exception in flight in run_rtlamr_for_freq
    received,          \* history: lines read from stdout in this cycle
    eof,               \* history: the current dwell read its stdout to the end
    cleanup,           \* history: what the current dwell did to end its child
    cancelAt,          \* history: pc at which the first interrupt arrived
    an_pc,             \* rtlamr_scan_analyzer.py: where its main is
    text,              \* the lines of the summary.txt it reads
    pos,               \* index in text of the next line of parse_summary's loop
    section,           \* parse_summary's section
    a_radios,          \* the analyzer's radios: id -> Radio
    freq_totals,       \* the analyzer's freq_totals
    core_count,        \* args.core_count
    a_core_freqs,      \* the analyzer's core_freqs
    by_core,           \* assign_core_to_radios' by_core
    recommend,         \* core_freqs.json: the file written, and its loading
    sweep,             \* a call of build_ism_freqs_mhz: arguments and outcome
    start,             \* main of the scanner before its loop: stage, arguments
    run_dirs           \* run directories created so far

vars == <<pc, exit, once, accepted_msgtypes, msgtype_arg, core_freqs, cycle,
          idx, radios, center_totals, type_totals, raw_log, summary, proc, orphans, dwells,
          outPipe, outClosed, outSent, errPipe, errSent, t_err, old_threads,
          printed, line, num_messages, local_radios, types_seen, exc,
          received, eof, cleanup, cancelAt, an_pc, text, pos, section,
          a_radios, freq_totals, core_count, a_core_freqs, by_core,
          recommend, sweep, start, run_dirs>>

aggregator == <<radios, center_totals, type_totals>>

dwell_locals == <<num_messages, local_radios, types_seen>>

config == <<once, accepted_msgtypes, msgtype_arg, core_freqs>>

children == <<proc, orphans, dwells>>

stdout == <<outPipe, outClosed, outSent>>

stderr == <<errPipe, errSent, t_err, old_threads, printed>>

history == <<received, eof, cleanup, cancelAt>>

\* The state of rtlamr_scan_analyzer.py.
analyzer == <<an_pc, text, pos, section, a_radios, freq_totals, core_count,
              a_core_freqs, by_core, recommend>>

\* main of the scanner before its loop, and the directories of its cycles.
boot == <<start, run_dirs>>

\* What the steps of a dwell leave alone: the analyzer, which is another
\* program, the call of build_ism_freqs_mhz under study, and what main and
\* run_cycle did before the dwell.
offline == <<analyzer, sweep, boot>>

\* The frequency of the current dwell.
center_freq_mhz == core_freqs[idx]

\* pcs inside the try block of run_rtlamr_for_freq (lines 238-302).
TryPcs == {"loop", "log", "decode", "create", "count", "type", "freqs",
           "ctot", "ttot"}

\* pcs at which some but not all of lines 282-287 have run for a record.
TornPcs == {"type", "freqs", "ctot", "ttot"}

\* pcs inside run_rtlamr_for_freq.
DwellPcs == TryPcs \cup {"thread", "except", "wait", "kill"}

\* No child yet.
no_proc ==
    [state |-> "none", term |-> FALSE, kill |-> FALSE, msgtype |-> <<>>]

\* The scanner before its first step, main being at p.
scanner_at(p) ==
    /\ pc = p
    /\ exit = "running"
    /\ cycle = 1
    /\ idx = 1
    /\ radios = EmptyMap
    /\ center_totals = EmptyMap
    /\ type_totals = EmptyMap
    /\ raw_log = <<>>
    /\ summary = <<>>
    /\ proc = no_proc
    /\ orphans = 0
    /\ dwells = 0
    /\ outPipe = <<>>
    /\ outClosed = FALSE
    /\ outSent = 0
    /\ errPipe = <<>>
    /\ errSent = 0
    /\ t_err = "none"
    /\ old_threads = 0
    /\ printed = 0
    /\ line = NoLine
    /\ num_messages = 0
    /\ local_radios = {}
    /\ types_seen = {}
    /\ exc = "none"
    /\ received = <<>>
    /\ eof = FALSE
    /\ cleanup = <<>>
    /\ cancelAt = "none"

\* The scanner is not run.
scanner_off ==
    /\ once = TRUE
    /\ accepted_msgtypes = NoneFilter
    /\ msgtype_arg = <<"all">>
    /\ core_freqs = <<kHz(910200)>>
    /\ scanner_at("off")

\* The analyzer is not run.
analyzer_off ==
    /\ an_pc = "off"
    /\ text = <<>>
    /\ pos = 1
    /\ section = "none"
    /\ a_radios = EmptyMap
    /\ freq_totals = EmptyMap
    /\ core_count = 2
    /\ a_core_freqs = <<>>
    /\ by_core = EmptyMap
    /\ recommend = NoRecommend

\* A call of build_ism_freqs_mhz.  min_mhz, max_mhz: the window; step_khz:
\* the step, in the unit of the model as well (step_khz / 1000.0 MHz, line
\* 80).  by_main: main makes the call.  out: "main" (main is at line 778),
\* "call" (the call is about to be made), "exit" (sys.exit(1) at line 783),
\* "ValueError", "returned".  freqs: the list returned.
Sweep(lo, hi, step, by_main, out, fl) ==
    [min_mhz |-> lo, max_mhz |-> hi, step_khz |-> step, by_main |-> by_main,
     out |-> out, freqs |-> fl]

\* main of the scanner before its loop.  stage: "off" (main is not under
\* study), or where main is: "args" (line 747), "resolve" (751), "window"
\* (778), "dry_run" (835), "ask" (840), "enter" (851), "loop"; or how it
\* ended before the loop: "exited" (sys.exit(1)), "crashed" (an exception
\* nothing catches), "returned".  args: what parse_args returned, here its
\* defaults (lines 439-512).  log_dir: the log directory exists.  resolved:
\* the list of resolve_core_freqs_mhz.  step_khz: main's ism_step_khz.
\* preview: the number of frequencies of the estimate.  answer: what
\* input() gave.  code: the exit status, -1 while main runs.
NoStart ==
    [stage |-> "off",
     args |-> [core_json |-> <<>>, freqs |-> <<>>,
               ism_min_mhz |-> kHz(902000), ism_max_mhz |-> kHz(928000),
               ism_step_khz |-> kHz(300), ism_sweep |-> FALSE,
               dry_run |-> FALSE, sanity_check |-> FALSE],
     log_dir |-> FALSE, resolved |-> <<>>, step_khz |-> 0, preview |-> 0,
     answer |-> "", code |-> -1]

\* No call of build_ism_freqs_mhz is under study.
NoSweep == Sweep(0, 0, 0, FALSE, "off", <<>>)

Init ==
    /\ once \in BOOLEAN
    /\ \E raw_arg \in MsgtypeArgs :
          /\ msgtype_arg = compute_msgtype_config(raw_arg).msgtype_arg
          /\ accepted_msgtypes = compute_msgtype_config(raw_arg).accepted
    /\ core_freqs \in Plans
    /\ scanner_at("cycle")
    /\ analyzer_off
    /\ sweep = NoSweep
    /\ start = [NoStart EXCEPT !.stage = "loop", !.log_dir = TRUE,
                                !.step_khz = kHz(300)]
    /\ run_dirs = 0

\* ---------------------------------------------------------------- child
\* The decoder is a black box.  What it does shows in the scanner only where
\* the scanner looks: a line or the end of stdout at line 240, its exit in
\* proc.wait of line 312.  Its steps are therefore taken while the main
\* thread is at one of these two places, or between two dwells.

\* The decoder writes a line to its stdout; it blocks while the pipe is full.
child_write_stdout ==
    /\ pc = "loop"
    /\ proc.state = "running"
    /\ ~outClosed
    /\ Len(outPipe) < PipeCap
    /\ outSent < MaxOut
    /\ \E l \in Lines : outPipe' = Append(outPipe, l)
    /\ outSent' = outSent + 1
    /\ UNCHANGED <<pc, exit, config, cycle, idx, aggregator, raw_log, summary,
                   children, outClosed, stderr, line, dwell_locals, exc,
                   history,
                   offline>>

\* The decoder closes its stdout and keeps running.
child_close_stdout ==
    /\ pc = "loop"
    /\ proc.state = "running"
    /\ ~outClosed
    /\ outClosed' = TRUE
    /\ UNCHANGED <<pc, exit, config, cycle, idx, aggregator, raw_log, summary,
                   children, outPipe, outSent, stderr, line, dwell_locals,
                   exc, history,
                   offline>>

\* The decoder exits: its duration is over, or a signal ended it.  Its
\* pipes lose their writer.
child_exit ==
    /\ pc \in {"loop", "wait", "for"}
    /\ proc.state = "running"
    /\ proc' = [proc EXCEPT !.state = "exited"]
    /\ outClosed' = TRUE
    /\ UNCHANGED <<pc, exit, config, cycle, idx, aggregator, raw_log, summary,
                   orphans, dwells, outPipe, outSent, stderr, line,
                   dwell_locals, exc, history,
                   offline>>

\* The child of an earlier dwell, left running by that dwell, exits.
orphan_exit ==
    /\ pc \in {"for", "loop", "wait"}
    /\ orphans > 0
    /\ orphans' = orphans - 1
    /\ UNCHANGED <<pc, exit, config, cycle, idx, aggregator, raw_log, summary,
                   proc, dwells, stdout, stderr, line, dwell_locals, exc,
                   history,
                   offline>>

\* The decoder writes a line to its stderr; it blocks while the pipe is full.
child_write_stderr ==
    /\ pc \in {"loop", "wait"}
    /\ proc.state = "running"
    /\ Len(errPipe) < PipeCap
    /\ errSent < MaxErr
    /\ \E d \in DiagLines : errPipe' = Append(errPipe, d)
    /\ errSent' = errSent + 1
    /\ UNCHANGED <<pc, exit, config, cycle, idx, aggregator, raw_log, summary,
                   children, stdout, t_err, old_threads, printed, line,
                   dwell_locals, exc, history,
                   offline>>

\* ---------------------------------------------------------- read_stderr
\* read_stderr counting the diagnostic line as a message of type "ERROR".
read_stderr_line_Counts ==
    /\ pc # "done"
    /\ t_err = "running"
    /\ errPipe # <<>>
    /\ errPipe' = Tail(errPipe)
    /\ printed' = IF Head(errPipe) = "error" THEN printed + 1 ELSE printed
    /\ type_totals' = Inc(type_totals, "ERROR")
    /\ UNCHANGED <<pc, exit, config, cycle, idx, radios, center_totals,
                   raw_log, summary, children, stdout, errSent, t_err,
                   old_threads, line, dwell_locals, exc, history,
                   offline>>

\* One pass of "for line in proc.stderr" (lines 163-174): blank lines and
\* lines without an error keyword are dropped, the others are printed.
read_stderr_line ==
    /\ pc # "done"
    /\ t_err = "running"
    /\ errPipe # <<>>
    /\ errPipe' = Tail(errPipe)
    /\ printed' = IF Head(errPipe) = "error" THEN printed + 1 ELSE printed
    /\ UNCHANGED <<pc, exit, config, cycle, idx, aggregator, raw_log, summary,
                   children, stdout, errSent, t_err, old_threads, line,
                   dwell_locals, exc, history,
                   offline>>

\* End of file on stderr: the thread of the current dwell returns.
read_stderr_eof ==
    /\ pc # "done"
    /\ t_err = "running"
    /\ errPipe = <<>>
    /\ proc.state = "exited"
    /\ t_err' = "done"
    /\ UNCHANGED <<pc, exit, config, cycle, idx, aggregator, raw_log, summary,
                   children, stdout, errPipe, errSent, old_threads, printed,
                   line, dwell_locals, exc, history,
                   offline>>

\* One pass of the same loop in a thread of an earlier dwell: its child,
\* which is still running, wrote a line to its stderr.
old_read_stderr_line ==
    /\ pc # "done"
    /\ orphans > 0
    /\ old_threads > 0
    /\ errSent < MaxErr
    /\ errSent' = errSent + 1
    /\ \E d \in DiagLines :
          printed' = IF d = "error" THEN printed + 1 ELSE printed
    /\ UNCHANGED <<pc, exit, config, cycle, idx, aggregator, raw_log, summary,
                   children, stdout, errPipe, t_err, old_threads, line,
                   dwell_locals, exc, history,
                   offline>>

\* End of file on stderr for a thread of an earlier dwell whose child has
\* exited.
old_read_stderr_eof ==
    /\ pc # "done"
    /\ old_threads > orphans
    /\ old_threads' = old_threads - 1
    /\ UNCHANGED <<pc, exit, config, cycle, idx, aggregator, raw_log, summary,
                   children, stdout, errPipe, errSent, t_err, printed, line,
                   dwell_locals, exc, history,
                   offline>>

\* ------------------------------------------------------------ main thread
\* run_cycle, lines 627-648: a new run directory, empty tables, raw.jsonl
\* opened for writing.
run_cycle_begin_SharedTables ==
    /\ pc = "cycle"
    /\ pc' = "for"
    /\ idx' = 1
    /\ raw_log' = <<>>
    /\ received' = <<>>
    /\ run_dirs' = run_dirs + 1
    /\ UNCHANGED <<exit, config, cycle, aggregator, summary, children, stdout,
                   stderr, line, dwell_locals, exc, eof, cleanup, cancelAt,
                   analyzer, sweep, start>>

run_cycle_begin ==
    /\ pc = "cycle"
    /\ pc' = "for"
    /\ idx' = 1
    /\ radios' = EmptyMap
    /\ center_totals' = EmptyMap
    /\ type_totals' = EmptyMap
    /\ raw_log' = <<>>
    /\ received' = <<>>
    /\ run_dirs' = run_dirs + 1
    /\ UNCHANGED <<exit, config, cycle, summary, children, stdout, stderr,
                   line, dwell_locals, exc, eof, cleanup, cancelAt,
                   analyzer, sweep, start>>

\* run_rtlamr_for_freq, lines 198-223: the next frequency of the plan, and
\* subprocess.Popen for it.  The handles of the previous child are dropped;
\* the child itself and its stderr thread go on if they have not ended.
Popen ==
    /\ pc = "for"
    /\ idx <= Len(core_freqs)
    /\ dwells < MaxDwells
    /\ dwells' = dwells + 1
    /\ orphans' = IF proc.state = "running" THEN orphans + 1 ELSE orphans
    /\ old_threads' = IF t_err = "running" THEN old_threads + 1 ELSE old_threads
    /\ proc' = [state |-> "running", term |-> FALSE, kill |-> FALSE,
                msgtype |-> msgtype_arg]
    /\ t_err' = "none"
    /\ outPipe' = <<>>
    /\ outClosed' = FALSE
    /\ errPipe' = <<>>
    /\ cleanup' = <<>>
    /\ eof' = FALSE
    /\ exc' = "none"
    /\ pc' = "thread"
    /\ UNCHANGED <<exit, config, cycle, idx, aggregator, raw_log, summary,
                   outSent, errSent, printed, line, dwell_locals, received,
                   cancelAt,
                   offline>>

\* Lines 225-238: the stderr thread is started, the per-frequency counters
\* are set up, the try block is entered.
start_t_err ==
    /\ pc = "thread"
    /\ t_err' = "running"
    /\ num_messages' = 0
    /\ local_radios' = {}
    /\ types_seen' = {}
    /\ line' = NoLine
    /\ pc' = "loop"
    /\ UNCHANGED <<exit, config, cycle, idx, aggregator, raw_log, summary,
                   children, stdout, errPipe, errSent, old_threads, printed,
                   exc, history,
                   offline>>

\* Line 240: the next line of proc.stdout.
read_stdout_line ==
    /\ pc = "loop"
    /\ outPipe # <<>>
    /\ line' = Head(outPipe)
    /\ outPipe' = Tail(outPipe)
    /\ received' = Append(received, Head(outPipe))
    /\ pc' = "log"
    /\ UNCHANGED <<exit, config, cycle, idx, aggregator, raw_log, summary,
                   children, outClosed, outSent, stderr, dwell_locals, exc,
                   eof, cleanup, cancelAt,
                   offline>>

\* Line 240: end of file on proc.stdout; the loop ends and the finally
\* block begins.
read_stdout_eof ==
    /\ pc = "loop"
    /\ outPipe = <<>>
    /\ outClosed
    /\ eof' = TRUE
    /\ pc' = "wait"
    /\ UNCHANGED <<exit, config, cycle, idx, aggregator, raw_log, summary,
                   children, stdout, stderr, line, dwell_locals, exc,
                   received, cleanup, cancelAt,
                   offline>>

\* Lines 241-246: the line is stripped; an empty one is passed over, any
\* other goes to the raw log.
log_line ==
    /\ pc = "log"
    /\ IF line.kind = "blank"
         THEN /\ line' = NoLine
              /\ pc' = "loop"
              /\ UNCHANGED raw_log
         ELSE /\ line' = strip(line)
              /\ raw_log' = raw_log_write(raw_log, strip(line))
              /\ pc' = "decode"
    /\ UNCHANGED <<exit, config, cycle, idx, aggregator, summary, children,
                   stdout, stderr, dwell_locals, exc, history,
                   offline>>

\* Lines 248-266: json.loads, the field lookups, the filter, int(meter_id).
decode_line ==
    /\ pc = "decode"
    /\ LET d == decode(line, accepted_msgtypes) IN
         /\ pc' = CASE d = "continue" -> "loop"
                    [] d = "raise" -> "wait"
                    [] OTHER -> "create"
         /\ exc' = IF d = "raise" THEN "Error" ELSE exc
         /\ line' = IF d = "continue" THEN NoLine ELSE line
    /\ UNCHANGED <<exit, config, cycle, idx, aggregator, raw_log, summary,
                   children, stdout, stderr, dwell_locals, history,
                   offline>>

\* Lines 268-281: the per-frequency counters, and the entry of the radio.
radio_create ==
    /\ pc = "create"
    /\ num_messages' = num_messages + 1
    /\ local_radios' = local_radios \cup {line.id}
    /\ types_seen' = types_seen \cup {msg_type(line)}
    /\ radios' = new_radio(radios, line.id, msg_type(line))
    /\ pc' = "count"
    /\ UNCHANGED <<exit, config, cycle, idx, center_totals, type_totals,
                   raw_log, summary, children, stdout, stderr, line, exc,
                   history,
                   offline>>

\* Line 282.
radio_count ==
    /\ pc = "count"
    /\ radios' = inc_count(radios, line.id)
    /\ pc' = "type"
    /\ UNCHANGED <<exit, config, cycle, idx, center_totals, type_totals,
                   raw_log, summary, children, stdout, stderr, line,
                   dwell_locals, exc, history,
                   offline>>

\* Line 283.
radio_type ==
    /\ pc = "type"
    /\ radios' = set_type(radios, line.id, msg_type(line))
    /\ pc' = "freqs"
    /\ UNCHANGED <<exit, config, cycle, idx, center_totals, type_totals,
                   raw_log, summary, children, stdout, stderr, line,
                   dwell_locals, exc, history,
                   offline>>

\* Line 284.
radio_freqs ==
    /\ pc = "freqs"
    /\ radios' = inc_radio_freq(radios, line.id, center_freq_mhz)
    /\ pc' = "ctot"
    /\ UNCHANGED <<exit, config, cycle, idx, center_totals, type_totals,
                   raw_log, summary, children, stdout, stderr, line,
                   dwell_locals, exc, history,
                   offline>>

\* Line 286.
center_total ==
    /\ pc = "ctot"
    /\ center_totals' = inc_center_totals(center_totals, center_freq_mhz)
    /\ pc' = "ttot"
    /\ UNCHANGED <<exit, config, cycle, idx, radios, type_totals, raw_log,
                   summary, children, stdout, stderr, line, dwell_locals, exc,
                   history,
                   offline>>

\* Lines 287-302: the type total, then the status line; back to line 240.
type_total ==
    /\ pc = "ttot"
    /\ type_totals' = inc_type_totals(type_totals, msg_type(line))
    /\ line' = NoLine
    /\ pc' = "loop"
    /\ UNCHANGED <<exit, config, cycle, idx, radios, center_totals, raw_log,
                   summary, children, stdout, stderr, dwell_locals, exc,
                   history,
                   offline>>

\* Where control goes when run_rtlamr_for_freq is left with exception e in
\* flight (lines 308-331): a normal return goes on with the next frequency;
\* a KeyboardInterrupt passes through run_cycle to the handler of main
\* (lines 870-871); any other exception is caught nowhere and ends main.
leave_dwell_Swallow(e) ==
    IF e = "Error"
      THEN [pc |-> "done", exit |-> "crashed", idx |-> idx]
      ELSE [pc |-> "for", exit |-> "running", idx |-> idx + 1]

leave_dwell(e) ==
    CASE e = "none" -> [pc |-> "for", exit |-> "running", idx |-> idx + 1]
      [] e = "KeyboardInterrupt" -> [pc |-> "done", exit |-> "interrupted", idx |-> idx]
      [] OTHER -> [pc |-> "done", exit |-> "crashed", idx |-> idx]

\* The cleanup history of a dwell that is left with e in flight.
left(c, e) == IF e = "none" THEN c ELSE Append(c, "raise")

\* Lines 304-306: the handler of KeyboardInterrupt sends SIGTERM.
terminate ==
    /\ pc = "except"
    /\ proc' = [proc EXCEPT !.term = TRUE]
    /\ cleanup' = Append(cleanup, "terminate")
    /\ pc' = "wait"
    /\ UNCHANGED <<exit, config, cycle, idx, aggregator, raw_log, summary,
                   orphans, dwells, stdout, stderr, line, dwell_locals, exc,
                   received, eof, cancelAt,
                   offline>>

\* Lines 311-312: proc.wait(timeout=5) returns, the child has exited.
wait_returns ==
    /\ pc = "wait"
    /\ proc.state = "exited"
    /\ LET n == leave_dwell(exc) IN
         /\ pc' = n.pc
         /\ exit' = n.exit
         /\ idx' = n.idx
    /\ cleanup' = left(Append(cleanup, "wait"), exc)
    /\ UNCHANGED <<config, cycle, aggregator, raw_log, summary, children,
                   stdout, stderr, line, dwell_locals, exc, received, eof,
                   cancelAt,
                   offline>>

\* Lines 312-313: five seconds pass and the child has not exited.
wait_times_out ==
    /\ pc = "wait"
    /\ proc.state = "running"
    /\ cleanup' = Append(cleanup, "wait")
    /\ pc' = "kill"
    /\ UNCHANGED <<exit, config, cycle, idx, aggregator, raw_log, summary,
                   children, stdout, stderr, line, dwell_locals, exc,
                   received, eof, cancelAt,
                   offline>>

\* Line 314: proc.kill() sends SIGKILL and returns at once; the function
\* goes on without waiting for the child.
kill ==
    /\ pc = "kill"
    /\ proc' = [proc EXCEPT !.kill = TRUE]
    /\ LET n == leave_dwell(exc) IN
         /\ pc' = n.pc
         /\ exit' = n.exit
         /\ idx' = n.idx
    /\ cleanup' = left(Append(cleanup, "kill"), exc)
    /\ UNCHANGED <<config, cycle, aggregator, raw_log, summary, orphans,
                   dwells, stdout, stderr, line, dwell_locals, exc, received,
                   eof, cancelAt,
                   offline>>

\* run_cycle, lines 648-727: the plan is exhausted, the with block closes
\* raw.jsonl.
close_raw_log ==
    /\ pc = "for"
    /\ idx > Len(core_freqs)
    /\ pc' = "report"
    /\ UNCHANGED <<exit, config, cycle, idx, aggregator, raw_log, summary,
                   children, stdout, stderr, line, dwell_locals, exc,
                   history,
                   offline>>

\* run_cycle, lines 729-743: summary.txt is written from the tables.
write_summary_table ==
    /\ pc = "report"
    /\ summary' = Append(summary,
                         [cycle |-> cycle,
                          text |-> summary_txt(radios, center_totals,
                                               type_totals, core_freqs)])
    /\ pc' = "cycle_end"
    /\ UNCHANGED <<exit, config, cycle, idx, aggregator, raw_log, children,
                   stdout, stderr, line, dwell_locals, exc, history,
                   offline>>

\* main, lines 868-869: args.once ends the loop.
main_once_Loops ==
    /\ pc = "cycle_end"
    /\ once
    /\ dwells < MaxDwells
    /\ cycle' = cycle + 1
    /\ pc' = "cycle"
    /\ UNCHANGED <<exit, config, idx, aggregator, raw_log, summary, children,
                   stdout, stderr, line, dwell_locals, exc, history,
                   offline>>

main_once ==
    /\ pc = "cycle_end"
    /\ once
    /\ pc' = "done"
    /\ exit' = "ok"
    /\ UNCHANGED <<config, cycle, idx, aggregator, raw_log, summary, children,
                   stdout, stderr, line, dwell_locals, exc, history,
                   offline>>

\* main, lines 852-853: the loop starts the next cycle.
main_again ==
    /\ pc = "cycle_end"
    /\ ~once
    /\ dwells < MaxDwells
    /\ cycle' = cycle + 1
    /\ pc' = "cycle"
    /\ UNCHANGED <<exit, config, idx, aggregator, raw_log, summary, children,
                   stdout, stderr, line, dwell_locals, exc, history,
                   offline>>

\* The operator presses Ctrl-C: Python raises KeyboardInterrupt in the main
\* thread at whatever statement it is executing.  Inside the try block the
\* handler of line 304 takes it; inside that handler, before proc.terminate,
\* only the finally block is left; outside the try block (before line 238,
\* or in the finally block, whose "except Exception" does not catch it) it
\* leaves run_rtlamr_for_freq at once; in run_cycle and main it goes to the
\* handler of line 870.  (Before the loop of main the steps of this action
\* do not apply: there only the prompt of line 841 takes an interrupt.)
KeyboardInterrupt ==
    /\ pc \notin {"done", "main"}
    /\ cancelAt' = IF cancelAt = "none" THEN pc ELSE cancelAt
    /\ CASE pc \in TryPcs ->
              /\ pc' = "except"
              /\ exc' = "KeyboardInterrupt"
              /\ UNCHANGED <<exit, idx, cleanup>>
         [] pc = "except" ->
              /\ pc' = "wait"
              /\ exc' = "KeyboardInterrupt"
              /\ UNCHANGED <<exit, idx, cleanup>>
         [] pc \in {"thread", "wait", "kill"} ->
              /\ LET n == leave_dwell("KeyboardInterrupt") IN
                   /\ pc' = n.pc
                   /\ exit' = n.exit
                   /\ idx' = n.idx
              /\ exc' = "KeyboardInterrupt"
              /\ cleanup' = left(cleanup, "KeyboardInterrupt")
         [] OTHER ->
              /\ pc' = "done"
              /\ exit' = "interrupted"
              /\ UNCHANGED <<exc, idx, cleanup>>
    /\ UNCHANGED <<config, cycle, aggregator, raw_log, summary, children,
                   stdout, stderr, line, dwell_locals, received, eof,
                   offline>>

\* ------------------------------------------------------------------ spec
\* The scanner without the steps of the diagnostic stream, which read and
\* write none of the variables of the main thread.
Next ==
    \/ run_cycle_begin
    \/ Popen
    \/ start_t_err
    \/ read_stdout_line
    \/ read_stdout_eof
    \/ log_line
    \/ decode_line
    \/ radio_create
    \/ radio_count
    \/ radio_type
    \/ radio_freqs
    \/ center_total
    \/ type_total
    \/ terminate
    \/ wait_returns
    \/ wait_times_out
    \/ kill
    \/ close_raw_log
    \/ write_summary_table
    \/ main_once
    \/ main_again
    \/ KeyboardInterrupt
    \/ child_write_stdout
    \/ child_close_stdout
    \/ child_exit
    \/ orphan_exit

Spec == Init /\ [][Next]_vars

\* The scanner with the diagnostic stream and its threads.
NextDiag ==
    \/ Next
    \/ child_write_stderr
    \/ read_stderr_line
    \/ read_stderr_eof
    \/ old_read_stderr_line
    \/ old_read_stderr_eof

SpecDiag == Init /\ [][NextDiag]_vars

\* -------------------------------------------------------- analyzer inputs
\* Three center frequencies, FB halfway between FA and FC.
FA == kHz(910200)

FB == kHz(911500)

FC == kHz(912800)

\* The lines a summary.txt is made of here: the two markers; another
\* header; a header that begins like a marker; an indented header; a column
\* header; a radio row with a chunk that is no number; a radio row of four
\* tokens; a radio row whose total is no integer; a frequency row; a
\* frequency row whose frequency is no number.
SummaryLines ==
    { TextLine("per_radio", <<Word("==="), Word("Per-Radio")>>),
      TextLine("strongest", <<Word("==="), Word("Strongest")>>),
      TextLine("other", <<Word("==="), Word("Message")>>),
      TextLine("near", <<Word("==="), Word("Per-Radio"), Word("Details")>>),
      TextLine("indented", <<Word("==="), Word("Notes")>>),
      TextLine("total", <<Word("Total"), Word("Freqs")>>),
      TextLine("data", <<IntTok(3), IntTok(2), IntTok(7), Word("SCM"),
                         DecTok(FA), Word("x"), DecTok(FC)>>),
      TextLine("data", <<IntTok(3), IntTok(1), IntTok(7), Word("SCM")>>),
      TextLine("data", <<Word("x"), IntTok(1), IntTok(7), Word("SCM"),
                         DecTok(FA)>>),
      TextLine("data", <<IntTok(5), DecTok(FA)>>),
      TextLine("data", <<IntTok(5), Word("x")>>) }

\* The files: every sequence of at most MaxLines of these lines.
Texts == UNION {[1..n -> SummaryLines] : n \in 0..MaxLines}

\* Lists of observed frequencies of a radio.
FreqLists == {<<>>, <<FA>>, <<FB>>, <<FA, FC>>, <<FB, FC>>}

\* The Radio objects with a given id.
RadiosOf(id) ==
    {Radio(id, Word("SCM"), n, Len(fl), fl) : n \in 1..2, fl \in FreqLists}

\* Tables of radios with ids "7" and "10".
RadioTables ==
    {EmptyMap}
    \cup {(IntTok(7) :> r) : r \in RadiosOf(IntTok(7))}
    \cup {(IntTok(7) :> r) @@ (IntTok(10) :> q) :
              r \in RadiosOf(IntTok(7)), q \in RadiosOf(IntTok(10))}

\* Tables of frequency totals.
FreqTotalTables == UNION {[fs -> 1..2] : fs \in SUBSET {FA, FB, FC}}

\* Core-frequency lists as a caller may give them.
CoreLists ==
    {<<>>} \cup {<<f>> : f \in {FA, FB, FC}}
    \cup {<<f, g>> : f \in {FA, FB, FC}, g \in {FA, FB, FC}}

\* Values of --core-count.
CoreCounts == {0, 1, 2, 3}

\* ---------------------------------------------------------------- analyzer
\* The analyzer starts in one of three ways: main reads a file (lines
\* 407-417); main goes on with tables as parse_summary can return them;
\* assign_core_to_radios is called with any tables and any core list.
analyzer_init ==
    /\ section = "none"
    /\ pos = 1
    /\ by_core = EmptyMap
    /\ recommend = NoRecommend
    /\ core_count \in CoreCounts
    /\ \/ /\ an_pc = "parse"
          /\ text \in Texts
          /\ a_radios = EmptyMap
          /\ freq_totals = EmptyMap
          /\ a_core_freqs = <<>>
       \/ /\ an_pc = "choose"
          /\ text = <<>>
          /\ a_radios \in RadioTables \ {EmptyMap}
          /\ freq_totals \in FreqTotalTables \ {EmptyMap}
          /\ a_core_freqs = <<>>
       \/ /\ an_pc = "call"
          /\ text = <<>>
          /\ a_radios \in RadioTables
          /\ freq_totals \in FreqTotalTables
          /\ a_core_freqs \in CoreLists

InitAnalyzer ==
    /\ scanner_off
    /\ analyzer_init
    /\ sweep = NoSweep
    /\ start = NoStart
    /\ run_dirs = 0

\* What the analyzer leaves alone.
scanner == <<pc, exit, config, cycle, idx, aggregator, raw_log, summary,
             children, stdout, stderr, line, dwell_locals, exc, history>>

\* parse_summary, lines 89-170: one line of the file.
parse_summary_line ==
    /\ an_pc = "parse"
    /\ pos <= Len(text)
    /\ LET st == parse_line([section |-> section, radios |-> a_radios,
                             freq_totals |-> freq_totals], text[pos]) IN
         /\ section' = st.section
         /\ a_radios' = st.radios
         /\ freq_totals' = st.freq_totals
    /\ pos' = pos + 1
    /\ UNCHANGED <<an_pc, text, core_count, a_core_freqs, by_core,
                   recommend, sweep, boot, scanner>>

\* parse_summary, lines 172-177: the end of the file; RuntimeError ends
\* main, a return lets it go on at line 409.
parse_summary_end ==
    /\ an_pc = "parse"
    /\ pos > Len(text)
    /\ an_pc' = IF parse_outcome(a_radios, freq_totals) = "returned"
                  THEN "choose" ELSE parse_outcome(a_radios, freq_totals)
    /\ UNCHANGED <<text, pos, section, a_radios, freq_totals, core_count,
                   a_core_freqs, by_core, recommend, sweep,
                   boot, scanner>>

\* main, lines 411-412.
choose_core ==
    /\ an_pc = "choose"
    /\ a_core_freqs' =
           choose_core_frequencies(freq_totals, clamp_core_count(core_count))
    /\ an_pc' = "assign"
    /\ UNCHANGED <<text, pos, section, a_radios, freq_totals, core_count,
                   by_core, recommend, sweep,
                   boot, scanner>>

\* main, line 417, and a call of assign_core_to_radios by any caller.
assign_core ==
    /\ an_pc \in {"assign", "call"}
    /\ LET res == assign_core_to_radios(a_radios, a_core_freqs, freq_totals) IN
         /\ a_radios' = res.radios
         /\ by_core' = res.by_core
    /\ an_pc' = IF an_pc = "assign" THEN "done" ELSE "called"
    /\ UNCHANGED <<text, pos, section, freq_totals, core_count, a_core_freqs,
                   recommend, sweep,
                   boot, scanner>>

\* main, lines 419-425, and a call of write_core_freqs_json by any caller.
write_core_freqs ==
    /\ an_pc \in {"done", "called"}
    /\ recommend' =
           [recommend EXCEPT
              !.file = <<write_core_freqs_json(a_core_freqs, freq_totals,
                                               by_core)>>]
    /\ an_pc' = IF an_pc = "done" THEN "written" ELSE "call_written"
    /\ UNCHANGED <<text, pos, section, a_radios, freq_totals, core_count,
                   a_core_freqs, by_core, sweep, boot, scanner>>

\* The scanner's load_core_freqs_from_json reads the file written.
load_core_freqs ==
    /\ an_pc \in {"written", "call_written"}
    /\ recommend' =
           [recommend EXCEPT
              !.loaded = load_core_freqs_from_json(recommend.file[1])]
    /\ an_pc' = IF an_pc = "written" THEN "loaded" ELSE "call_loaded"
    /\ UNCHANGED <<text, pos, section, a_radios, freq_totals, core_count,
                   a_core_freqs, by_core, sweep, boot, scanner>>

NextAnalyzer ==
    \/ parse_summary_line
    \/ parse_summary_end
    \/ choose_core
    \/ assign_core
    \/ write_core_freqs
    \/ load_core_freqs

SpecAnalyzer == InitAnalyzer /\ [][NextAnalyzer]_vars

\* ------------------------------------------------------------------ sweep
\* The windows and steps of the calls: bounds on and off the kHz grid, min
\* below, at and above max, steps of 0.2, 0.4, 1, 1.4 and 300 kHz, a zero
\* and a negative step.
Base == kHz(902000)

SweepMins == {Base, Base + 2, Base + 3, Base + 5}

SweepMaxs == {Base - 5, Base, Base + 3, Base + 11, Base + 16}

SweepSteps == {-5, 0, 1, 2, 5, 7, kHz(300)}

\* A call by main, or by any caller.
InitSweep ==
    /\ scanner_off
    /\ start = NoStart
    /\ run_dirs = 0
    /\ analyzer_off
    /\ sweep \in {Sweep(lo, hi, step, m, IF m THEN "main" ELSE "call", <<>>) :
                    lo \in SweepMins, hi \in SweepMaxs, step \in SweepSteps,
                    m \in BOOLEAN}

\* main, lines 778-790: the window is refused, a step that is not positive
\* is replaced by 300 kHz.
ism_window ==
    /\ sweep.out = "main"
    /\ sweep' = IF sweep.min_mhz >= sweep.max_mhz
                  THEN [sweep EXCEPT !.out = "exit"]
                  ELSE [sweep EXCEPT !.out = "call",
                                     !.step_khz = IF @ <= 0 THEN kHz(300) ELSE @]
    /\ UNCHANGED <<scanner, analyzer, boot>>

\* Lines 813-817 of main, or any other call of build_ism_freqs_mhz.
call_build_ism_freqs_mhz ==
    /\ sweep.out = "call"
    /\ LET res == build_ism_freqs_mhz(sweep.min_mhz, sweep.max_mhz,
                                      sweep.step_khz) IN
         sweep' = [sweep EXCEPT !.out = res.out, !.freqs = res.freqs]
    /\ UNCHANGED <<scanner, analyzer, boot>>

NextSweep ==
    \/ ism_window
    \/ call_build_ism_freqs_mhz

SpecSweep == InitSweep /\ [][NextSweep]_vars

\* ------------------------------------------------------- main of the scanner
\* The arguments of the scanner that main reads before its loop.
\* --core-json: not given, or a path with no file, with no JSON, with a JSON
\* array, with an object without "core_freqs", with one whose only entry
\* has no number, or with the file the analyzer writes for 910.2 MHz
\* followed by an entry without a number.  --freqs: not given, "x", or
\* "910.2004,x,910.2002".  The window: 902.000-902.001, 902.000-902.000 or
\* 902.001-902.000 MHz.  --ism-step-khz: 0 or 1.
StartArgs ==
    { [core_json |-> cj, freqs |-> fr, ism_min_mhz |-> w[1],
       ism_max_mhz |-> w[2], ism_step_khz |-> st, ism_sweep |-> sw,
       dry_run |-> dr, sanity_check |-> sc] :
        cj \in { <<>>,
                 <<CoreFile("missing", <<>>)>>,
                 <<CoreFile("malformed", <<>>)>>,
                 <<CoreFile("array", <<>>)>>,
                 <<CoreFile("object", <<>>)>>,
                 <<CoreFile("object", <<Entry(1, Word("x"), 0, <<>>)>>)>>,
                 <<CoreFile("object",
                            <<Entry(1, json_number(kHz(910200)), 3, <<>>),
                              Entry(2, Word("x"), 0, <<>>)>>)>> },
        fr \in { <<>>,
                 <<Word("x")>>,
                 <<DecTok(kHz(910200) + 2), Word("x"),
                   DecTok(kHz(910200) + 1)>> },
        w \in {<<Base, Base + 5>>, <<Base, Base>>, <<Base + 5, Base>>},
        st \in {0, kHz(1)},
        sw \in BOOLEAN, dr \in BOOLEAN, sc \in BOOLEAN }

InitMain ==
    /\ once \in BOOLEAN
    /\ accepted_msgtypes = NoneFilter
    /\ msgtype_arg = <<"all">>
    /\ core_freqs = <<>>
    /\ scanner_at("main")
    /\ analyzer_off
    /\ sweep = NoSweep
    /\ run_dirs = 0
    /\ start \in {[NoStart EXCEPT !.stage = "args", !.args = a,
                                   !.step_khz = a.ism_step_khz] :
                    a \in StartArgs}

\* main, line 749: the log directory is created if it is not there.
ensure_log_dir ==
    /\ start.stage = "args"
    /\ start' = [start EXCEPT !.stage = "resolve", !.log_dir = TRUE]
    /\ UNCHANGED <<scanner, analyzer, sweep, run_dirs>>

\* main, line 752.
resolve_core ==
    /\ start.stage = "resolve"
    /\ LET res == resolve_core_freqs_mhz(start.args.core_json,
                                         start.args.freqs) IN
         start' = CASE res.out = "returned" ->
                         [start EXCEPT !.stage = "window",
                                       !.resolved = res.freqs]
                    [] res.out = "exit" ->
                         [start EXCEPT !.stage = "exited", !.code = 1]
                    [] OTHER ->
                         [start EXCEPT !.stage = "crashed", !.code = 1]
    /\ UNCHANGED <<scanner, analyzer, sweep, run_dirs>>

\* main without the test of the window.
main_window_AnyWindow ==
    /\ start.stage = "window"
    /\ LET step == IF start.args.ism_step_khz <= 0
                     THEN kHz(300)
                     ELSE start.args.ism_step_khz
           ism == build_ism_freqs_mhz(start.args.ism_min_mhz,
                                      start.args.ism_max_mhz, step).freqs
       IN start' = [start EXCEPT
                      !.stage = "dry_run",
                      !.step_khz = step,
                      !.preview = IF start.args.ism_sweep
                                    THEN Len(ism)
                                    ELSE Len(start.resolved)]
    /\ UNCHANGED <<scanner, analyzer, sweep, run_dirs>>

\* main, lines 774-832: the window is refused with exit status 1; a step
\* that is not positive is replaced by 300 kHz; then the estimate of the
\* cycle, for which build_ism_freqs_mhz is called with --ism-sweep (the
\* step is positive there, so it returns).
main_window ==
    /\ start.stage = "window"
    /\ LET step == IF start.args.ism_step_khz <= 0
                     THEN kHz(300)
                     ELSE start.args.ism_step_khz
           ism == build_ism_freqs_mhz(start.args.ism_min_mhz,
                                      start.args.ism_max_mhz, step).freqs
       IN start' = IF start.args.ism_min_mhz >= start.args.ism_max_mhz
                     THEN [start EXCEPT !.stage = "exited", !.code = 1]
                     ELSE [start EXCEPT
                             !.stage = "dry_run",
                             !.step_khz = step,
                             !.preview = IF start.args.ism_sweep
                                           THEN Len(ism)
                                           ELSE Len(start.resolved)]
    /\ UNCHANGED <<scanner, analyzer, sweep, run_dirs>>

\* main with --dry-run ignored.
main_dry_run_Ignored ==
    /\ start.stage = "dry_run"
    /\ start' = IF start.args.sanity_check
                  THEN [start EXCEPT !.stage = "ask"]
                  ELSE [start EXCEPT !.stage = "enter"]
    /\ UNCHANGED <<scanner, analyzer, sweep, run_dirs>>

\* main, lines 835-840: --dry-run returns; --sanity-check asks.
main_dry_run ==
    /\ start.stage = "dry_run"
    /\ start' = IF start.args.dry_run
                  THEN [start EXCEPT !.stage = "returned", !.code = 0]
                ELSE IF start.args.sanity_check
                  THEN [start EXCEPT !.stage = "ask"]
                ELSE [start EXCEPT !.stage = "enter"]
    /\ UNCHANGED <<scanner, analyzer, sweep, run_dirs>>

\* main, lines 841-849: the prompt.  EOFError and KeyboardInterrupt are
\* caught here, and main returns as it does on an answer that begins with
\* "n" or "N".
ask_operator ==
    /\ start.stage = "ask"
    /\ \E ans \in {"y", "n", "EOFError", "KeyboardInterrupt"} :
          start' = IF ans \in {"n", "EOFError", "KeyboardInterrupt"}
                     THEN [start EXCEPT !.stage = "returned", !.code = 0,
                                        !.answer = ans]
                     ELSE [start EXCEPT !.stage = "enter", !.answer = ans]
    /\ UNCHANGED <<scanner, analyzer, sweep, run_dirs>>

\* main, lines 851-853, and run_cycle, lines 648-661 and 691-697: the loop
\* is entered; the cycles run on the sweep, or else on the resolved list.
enter_loop ==
    /\ start.stage = "enter"
    /\ pc = "main"
    /\ start' = [start EXCEPT !.stage = "loop"]
    /\ pc' = "cycle"
    /\ core_freqs' =
           IF start.args.ism_sweep
             THEN build_ism_freqs_mhz(start.args.ism_min_mhz,
                                      start.args.ism_max_mhz,
                                      start.step_khz).freqs
             ELSE start.resolved
    /\ UNCHANGED <<exit, once, accepted_msgtypes, msgtype_arg, cycle, idx,
                   aggregator,
                   raw_log, summary, children, stdout, stderr, line,
                   dwell_locals, exc, history, analyzer, sweep, run_dirs>>

NextMain ==
    \/ ensure_log_dir
    \/ resolve_core
    \/ main_window
    \/ main_dry_run
    \/ ask_operator
    \/ enter_loop
    \/ Next

SpecMain == InitMain /\ [][NextMain]_vars

\* ---------------------------------------------------------------- claims
\* The frequencies a dwell can run on.
AllFreqs == UNION {{p[i] : i \in DOMAIN p} : p \in Plans}

RECURSIVE RadioFreqSum(_, _)
\* Sum over the radios in ids of their counter for frequency f.
RadioFreqSum(ids, f) ==
    IF ids = {} THEN 0
    ELSE LET id == CHOOSE x \in ids : TRUE IN
           Get0(radios[id].freqs, f) + RadioFreqSum(ids \ {id}, f)

RECURSIVE RadioCountSum(_)
\* Sum over the radios in ids of their total count.
RadioCountSum(ids) ==
    IF ids = {} THEN 0
    ELSE LET id == CHOOSE x \in ids : TRUE IN
           radios[id].count + RadioCountSum(ids \ {id})

\* Every record received so far has been processed to the end: the loop is
\* not between lines 282 and 287 of a record, and no KeyboardInterrupt
\* stopped it there.
RecordsProcessed == pc \notin TornPcs /\ cancelAt \notin TornPcs

\* C1: whenever every record received in the cycle has been processed to
\* the end, for every frequency f the per-frequency counts of all radios
\* add up to the frequency total of f, and the type totals add up to the
\* sum of the radios' total counts.
C1_TotalsAgree ==
    RecordsProcessed =>
        /\ \A f \in AllFreqs :
               RadioFreqSum(DOMAIN radios, f) = Get0(center_totals, f)
        /\ SumValues(type_totals) = RadioCountSum(DOMAIN radios)

\* C1 witness: two records counted on two frequencies of one cycle.
C1_Witness ==
    /\ RecordsProcessed
    /\ Cardinality(DOMAIN center_totals) = 2
    /\ SumValues(type_totals) = 2

\* Line 282 of the current record has run and line 284 has not, or a
\* KeyboardInterrupt stopped the loop between the two.
CountAhead == pc \in {"type", "freqs"} \/ cancelAt \in {"type", "freqs"}

\* C2: for every radio, once lines 282-284 have run for each of its
\* records, its per-frequency counts add up to its total count.
C2_RadioCountIsFreqSum ==
    ~CountAhead =>
        \A id \in DOMAIN radios : SumValues(radios[id].freqs) = radios[id].count

\* C2 witness: one radio counted on two frequencies.
C2_Witness ==
    /\ ~CountAhead
    /\ \E id \in DOMAIN radios :
           /\ radios[id].count = 2
           /\ Cardinality(DOMAIN radios[id].freqs) = 2

\* A KeyboardInterrupt arrived while run_rtlamr_for_freq was running, and
\* main has ended.
CancelledInDwell == cancelAt \in DwellPcs /\ pc = "done"

\* A KeyboardInterrupt arrived inside the loop over the child's output
\* (lines 238-302), and main has ended.
CancelledInLoop == cancelAt \in TryPcs /\ pc = "done"

\* C3: when the operator cancelled in the middle of a dwell and the program
\* has ended, the report of the current cycle has been written, and it
\* holds the tables as they were aggregated.
C3_ReportAfterCancel ==
    CancelledInLoop =>
        /\ Len(summary) = cycle
        /\ summary[cycle].text =
               summary_txt(radios, center_totals, type_totals, core_freqs)

\* C4: a dwell cancelled by the operator ends its child in this order:
\* terminate, the bounded wait, kill if the wait ran out, and then the
\* KeyboardInterrupt is raised to the caller.
C4_CancelOrder ==
    CancelledInDwell =>
        cleanup \in { <<"terminate", "wait", "raise">>,
                      <<"terminate", "wait", "kill", "raise">> }

\* C5: once a KeyboardInterrupt has arrived during a dwell, no step starts
\* a dwell or a cycle, and the step that leaves the dwell ends main as
\* interrupted: the rest of the plan is not visited, the loop of main is
\* left.
C5_CancelEndsTheRun ==
    [][(cancelAt \in DwellPcs) =>
          (/\ dwells' = dwells
           /\ cycle' = cycle
           /\ idx' = idx
           /\ pc' \in DwellPcs \cup {"done"}
           /\ (pc' = "done" => exit' = "interrupted"))]_vars

\* C5 witness: main has ended after a cancellation in the first dwell of a
\* repeating run whose plan has a second frequency.
C5_Witness ==
    /\ CancelledInDwell
    /\ exit = "interrupted"
    /\ ~once
    /\ idx < Len(core_freqs)
    /\ dwells = 1
    /\ "terminate" \in {cleanup[i] : i \in DOMAIN cleanup}

\* Decoder children that are running.
Running == orphans + (IF proc.state = "running" THEN 1 ELSE 0)

\* C6: at every moment at most one decoder child is running.
C6_OneChildAtATime == Running <= 1

\* C7: a dwell that was left without a cancellation has read the output
\* stream of its child to the end, whatever the child wrote to its
\* diagnostic stream.
C7_OutputDrained ==
    (dwells > 0 /\ pc \notin DwellPcs /\ cancelAt = "none") => eof

\* The line without its surrounding whitespace.
Trimmed(l) ==
    [pad |-> FALSE, kind |-> l.kind, typ |-> l.typ, idk |-> l.idk, id |-> l.id]

\* The line holds something besides whitespace.
NonBlank(l) == l.kind # "blank"

\* The non-blank lines of s, each without its surrounding whitespace.
TrimmedNonBlank(s) ==
    LET t == SelectSeq(s, NonBlank) IN [i \in 1..Len(t) |-> Trimmed(t[i])]

\* The last line received has not reached line 246: the loop is between
\* lines 240 and 246, or a KeyboardInterrupt stopped it there.
LastNotLogged == pc = "log" \/ cancelAt = "log"

\* The lines received in the cycle that have passed lines 241-246.
Handled ==
    IF LastNotLogged THEN SubSeq(received, 1, Len(received) - 1) ELSE received

\* pcs of lines 248-287, where the current line is decoded and counted.
DecodePcs == {"decode", "create", "count", "type", "freqs", "ctot", "ttot"}

TypeName(l) ==
    CASE l.typ = "" -> "UNKNOWN"
      [] l.typ = "idm" -> "IDM"
      [] OTHER -> l.typ

\* The line is malformed, or its record has no radio identifier, or the
\* filter is set and the record's type is not in it.
Skipped(l) ==
    \/ l.kind \in {"blank", "nonjson", "nonobject"}
    \/ l.idk = "missing"
    \/ accepted_msgtypes.some /\ TypeName(l) \notin accepted_msgtypes.types

\* C9: while the loop works on a skipped line, no step changes a RadioStat,
\* a frequency total, a type total or a per-dwell counter or set.
C9_SkippedLeavesStateAlone ==
    [][(line # NoLine /\ Skipped(line)) =>
          (UNCHANGED <<radios, center_totals, type_totals, num_messages,
                       local_radios, types_seen>>)]_vars

\* C9 witness: with the filter set, a record was counted, and then a
\* record of a type outside the filter went through the loop.
C9_Witness ==
    /\ pc = "loop"
    /\ line = NoLine
    /\ accepted_msgtypes.some
    /\ Len(received) = 2
    /\ received[2].kind = "object"
    /\ received[2].idk = "int"
    /\ TypeName(received[2]) \notin accepted_msgtypes.types
    /\ num_messages = 1
    /\ SumValues(type_totals) = 1

\* C10: no line of the decoder ends the scan with an uncaught exception.
C10_NoLineAborts == exit # "crashed"

\* assign_core_to_radios has returned.
Assigned == an_pc \in {"done", "called"}

\* The core frequency stored in every radio is set and is in the list.
AllInCore ==
    \A id \in DOMAIN a_radios :
        /\ a_radios[id].assigned_core_freq_mhz # <<>>
        /\ a_radios[id].assigned_core_freq_mhz[1] \in members(a_core_freqs)

\* C11 as stated: after assign_core_to_radios, for any radios and any core
\* list, every radio has its core frequency set, to a member of the list.
C11_AlwaysAssigned == Assigned => AllInCore

\* C11 as amended: the same for every core list that is not empty.
C11_AssignedIfCore == (Assigned /\ a_core_freqs # <<>>) => AllInCore

\* C11 witness: two radios, a core list of two frequencies, and a radio
\* that matches none of them.
C11_Witness ==
    /\ an_pc = "called"
    /\ Cardinality(DOMAIN a_radios) = 2
    /\ a_core_freqs = <<FA, FC>>
    /\ \E id \in DOMAIN a_radios :
           /\ a_radios[id].center_freqs_mhz = <<FB>>
           /\ a_radios[id].assigned_core_freq_mhz = <<FA>>

\* The places (core frequency, index) at which radio id stands in by_core.
PlacesOf(id) ==
    {p \in UNION {{<<cf, i>> : i \in DOMAIN by_core[cf]} : cf \in DOMAIN by_core} :
        by_core[p[1]][p[2]] = id}

\* C12: after main's pass (parse_summary, choose_core_frequencies with the
\* clamped count, assign_core_to_radios) every radio stands at exactly one
\* place of by_core, in the list of the core frequency stored in it, and
\* by_core has no key outside the core list and no entry that is no radio.
C12_ExactlyOneList ==
    an_pc = "done" =>
        /\ DOMAIN by_core \subseteq members(a_core_freqs)
        /\ \A cf \in DOMAIN by_core : members(by_core[cf]) \subseteq DOMAIN a_radios
        /\ \A id \in DOMAIN a_radios :
               /\ Cardinality(PlacesOf(id)) = 1
               /\ \A p \in PlacesOf(id) :
                      a_radios[id].assigned_core_freq_mhz = <<p[1]>>

\* C12 witness: the pass ended with two radios in the lists of two core
\* frequencies.
C12_Witness ==
    /\ an_pc = "done"
    /\ Cardinality(DOMAIN a_radios) = 2
    /\ Len(a_core_freqs) = 2
    /\ \A cf \in DOMAIN by_core : Len(by_core[cf]) = 1

\* The core frequencies that an observed frequency of radio r matches.
Matching(r) ==
    {cf \in members(a_core_freqs) : cf \in members(r.center_freqs_mhz)}

\* The total of core frequency cf in freq_totals, 0 if it has none.
GlobalTotal(cf) == IF cf \in DOMAIN freq_totals THEN freq_totals[cf] ELSE 0

\* The matching core frequencies of r with the highest total.
TopMatching(r) ==
    {cf \in Matching(r) : \A g \in Matching(r) : GlobalTotal(cf) >= GlobalTotal(g)}

\* C13 as stated: a radio that matches a core frequency is assigned to the
\* matching one with the highest total, among equals the smaller frequency.
C13_TieToSmaller ==
    Assigned =>
        \A id \in DOMAIN a_radios :
            Matching(a_radios[id]) # {} =>
                /\ a_radios[id].assigned_core_freq_mhz # <<>>
                /\ a_radios[id].assigned_core_freq_mhz[1] \in TopMatching(a_radios[id])
                /\ \A g \in TopMatching(a_radios[id]) :
                       a_radios[id].assigned_core_freq_mhz[1] <= g

\* C13 as amended: among equals the larger frequency.
C13_TieToLarger ==
    Assigned =>
        \A id \in DOMAIN a_radios :
            Matching(a_radios[id]) # {} =>
                /\ a_radios[id].assigned_core_freq_mhz # <<>>
                /\ a_radios[id].assigned_core_freq_mhz[1] \in TopMatching(a_radios[id])
                /\ \A g \in TopMatching(a_radios[id]) :
                       a_radios[id].assigned_core_freq_mhz[1] >= g

\* C13 witness: a radio seen on FA and FC, both core frequencies with the
\* same total, is assigned to FC, the larger of the two.
C13_Witness ==
    /\ Assigned
    /\ \E id \in DOMAIN a_radios :
           /\ a_radios[id].center_freqs_mhz = <<FA, FC>>
           /\ TopMatching(a_radios[id]) = {FA, FC}
           /\ a_radios[id].assigned_core_freq_mhz = <<FC>>

\* The distance of cf to the mean of the frequencies fs, times Len(fs).
Distance(cf, fs) ==
    LET d == Len(fs) * cf - sum_seq(fs) IN IF d < 0 THEN -d ELSE d

\* C14: with a core list that is not empty, a radio that has observed
\* frequencies and matches no core frequency is assigned to the core
\* frequency nearest to their mean, of equally near ones to the first in
\* the list; a radio without observed frequencies to the first of the list.
C14_NearestToMean ==
    (Assigned /\ a_core_freqs # <<>>) =>
        \A id \in DOMAIN a_radios :
            LET r == a_radios[id] IN
              /\ r.center_freqs_mhz = <<>> =>
                     r.assigned_core_freq_mhz = <<a_core_freqs[1]>>
              /\ (r.center_freqs_mhz # <<>> /\ Matching(r) = {}) =>
                     \E i \in DOMAIN a_core_freqs :
                         /\ r.assigned_core_freq_mhz = <<a_core_freqs[i]>>
                         /\ \A j \in DOMAIN a_core_freqs :
                                Distance(a_core_freqs[i], r.center_freqs_mhz)
                                    <= Distance(a_core_freqs[j], r.center_freqs_mhz)
                         /\ \A j \in 1..(i - 1) :
                                Distance(a_core_freqs[j], r.center_freqs_mhz)
                                    > Distance(a_core_freqs[i], r.center_freqs_mhz)

\* C14 witness: a radio seen on FB only, halfway between the core
\* frequencies FC and FA given in this order, is assigned to FC; a radio
\* without observed frequencies is there too.
C14_Witness ==
    /\ an_pc = "called"
    /\ a_core_freqs = <<FC, FA>>
    /\ \E id \in DOMAIN a_radios :
           /\ a_radios[id].center_freqs_mhz = <<FB>>
           /\ a_radios[id].assigned_core_freq_mhz = <<FC>>
    /\ \E id \in DOMAIN a_radios :
           /\ a_radios[id].center_freqs_mhz = <<>>
           /\ a_radios[id].assigned_core_freq_mhz = <<FC>>

\* choose_core_frequencies has returned to main.
Chosen == an_pc \in {"assign", "done"}

\* Frequency f comes before g: higher total, or equal total and smaller.
Stronger(f, g) ==
    \/ freq_totals[f] > freq_totals[g]
    \/ freq_totals[f] = freq_totals[g] /\ f < g

\* C15: with k >= 1, choose_core_frequencies returns min(k, number of
\* frequencies) distinct frequencies of freq_totals, in the order of
\* descending total and then ascending frequency, none of the others
\* coming before any of them; a second call returns the same.
C15_TopK ==
    Chosen =>
        LET k == IF core_count < 1 THEN 1 ELSE core_count
            n == Cardinality(DOMAIN freq_totals)
        IN  /\ Len(a_core_freqs) = (IF k < n THEN k ELSE n)
            /\ members(a_core_freqs) \subseteq DOMAIN freq_totals
            /\ Cardinality(members(a_core_freqs)) = Len(a_core_freqs)
            /\ \A i, j \in DOMAIN a_core_freqs :
                   i < j => Stronger(a_core_freqs[i], a_core_freqs[j])
            /\ \A f \in DOMAIN freq_totals \ members(a_core_freqs) :
                   \A i \in DOMAIN a_core_freqs : Stronger(a_core_freqs[i], f)
            /\ a_core_freqs = choose_core_frequencies(freq_totals, k)

\* C15 witness: two of three frequencies chosen, the two with equal totals
\* in ascending order, the third left out.
C15_Witness ==
    /\ Chosen
    /\ core_count = 2
    /\ Cardinality(DOMAIN freq_totals) = 3
    /\ a_core_freqs = <<FB, FC>>
    /\ freq_totals[FB] = freq_totals[FC]

\* What parse_summary reads in the report that write_summary_table has just
\* written.
Parsed == parse_lines(parse_start, summary[Len(summary)].text)

\* The report has just been written from the tables.
ReportWritten == pc = "cycle_end" /\ Len(summary) > 0

\* str(id): the id of an aggregated radio as the string of the report.
IdString(id) == IntTok(id)

\* The observed frequencies of an aggregated radio at display rounding.
DisplayedFreqs(r) ==
    LET fl == sorted_freqs(DOMAIN r.freqs) IN
      [i \in 1..Len(fl) |-> round3(fl[i])]

\* parse_summary returns, and the parsed tables are the aggregated ones.
RoundTrip ==
    /\ parse_outcome(Parsed.radios, Parsed.freq_totals) = "returned"
    /\ DOMAIN Parsed.radios = {IdString(id) : id \in DOMAIN radios}
    /\ \A id \in DOMAIN radios :
           /\ Parsed.radios[IdString(id)].id = IdString(id)
           /\ Parsed.radios[IdString(id)].total_messages = radios[id].count
           /\ Parsed.radios[IdString(id)].center_freqs_mhz =
                  DisplayedFreqs(radios[id])
    /\ DOMAIN Parsed.freq_totals = DOMAIN center_totals
    /\ \A f \in DOMAIN center_totals :
           Parsed.freq_totals[f] = center_totals[f]

\* Every aggregated radio has a type that is a word: not empty, no blanks.
TypesAreWords == \A id \in DOMAIN radios : field(radios[id].type) # <<>>

\* C16: for every state of the tables the scanner reaches, the report
\* written from them is parsed back into one radio per aggregated radio,
\* with its id as a string, its total and its frequencies at display
\* rounding, and into the same total for every aggregated frequency.  (Stated
\* for the tables that hold a radio: parse_summary refuses a report without
\* radios at lines 172-173.)
C16_RoundTrip == (ReportWritten /\ DOMAIN radios # {}) => RoundTrip

\* The round trip does hold for the tables that hold a radio and only radios
\* whose type is a word.
RoundTripOfWords ==
    (ReportWritten /\ DOMAIN radios # {} /\ TypesAreWords) => RoundTrip

\* parse_summary has just read the line text[pos].
LineRead == an_pc = "parse" /\ pos <= Len(text) /\ pos' = pos + 1

\* The state a header-marked line (one that begins with "===") sets: the
\* per-radio header PER_RADIO, the frequency-totals header FREQ_TOTALS, any
\* other NONE; a line without the mark leaves the state as it is.
StateAfter(sec, l) ==
    CASE l.head = "per_radio" -> "per_radio"
      [] l.head = "strongest" -> "freq_totals"
      [] l.head \in {"other", "near"} -> "none"
      [] OTHER -> sec

\* C17: parse_summary is a state machine over the lines: every line read
\* leaves the state that the most recent header-marked line sets (per-radio
\* header PER_RADIO, frequency-totals header FREQ_TOTALS, any other
\* header-marked line NONE), a radio is added only in PER_RADIO and a
\* frequency total only in FREQ_TOTALS.
C17_SectionFollowsHeaders ==
    [][LineRead =>
         (/\ section' = StateAfter(section, text[pos])
          /\ (a_radios' # a_radios => section' = "per_radio")
          /\ (freq_totals' # freq_totals => section' = "freq_totals"))]_vars

\* parse_summary has raised the RuntimeError of lines 172-175.
NoData == {"NoRadios", "NoTotals"}

\* parse_summary ends in this step.
ParseEnds == an_pc = "parse" /\ an_pc' # "parse"

\* No line of the file is one of the two section markers.
NoMarker == \A i \in DOMAIN text : text[i].head \notin {"per_radio", "strongest"}

\* No line of the file has the shape of a frequency-total row.
NoTotalRow ==
    \A i \in DOMAIN text :
        ~(/\ Len(text[i].parts) = 2
          /\ int_ok(text[i].parts[1])
          /\ float_ok(text[i].parts[2]))

\* C18: parse_summary ends after the whole file, and it fails with the
\* no-data error exactly when no radio or no frequency total was parsed; a
\* file without a section marker fails, and so does a file without a
\* frequency-total row.
C18_NoDataExactly ==
    [][ParseEnds =>
         (/\ pos > Len(text)
          /\ a_radios = parse_lines(parse_start, text).radios
          /\ freq_totals = parse_lines(parse_start, text).freq_totals
          /\ (an_pc' \in NoData <=>
                 (DOMAIN a_radios = {} \/ DOMAIN freq_totals = {}))
          /\ (NoMarker => an_pc' \in NoData)
          /\ (NoTotalRow => an_pc' \in NoData))]_vars

\* C18 witness: a file with a per-radio section that gave a radio, and no
\* frequency total, has been refused.
C18_Witness ==
    /\ an_pc \in NoData
    /\ pos > Len(text)
    /\ \E i \in DOMAIN text : text[i].head = "per_radio"
    /\ DOMAIN a_radios # {}
    /\ DOMAIN freq_totals = {}

\* build_ism_freqs_mhz has been called and has ended.
SweepEnded == sweep.out \in {"ValueError", "returned"}

ValidSweep ==
    /\ sweep.out = "returned"
    /\ sweep.step_khz > 0
    /\ sweep.min_mhz < sweep.max_mhz

\* The list is in ascending order (equal neighbours allowed).
Ascending(fl) == \A i, j \in DOMAIN fl : i < j => fl[i] <= fl[j]

\* The last value of f the loop of lines 81-83 appends for.
LastStep ==
    sweep.min_mhz
        + ((sweep.max_mhz - sweep.min_mhz) \div sweep.step_khz) * sweep.step_khz

C21_NoDuplicates ==
    ValidSweep =>
        \A i, j \in DOMAIN sweep.freqs :
            i # j => sweep.freqs[i] # sweep.freqs[j]

\* core_freqs.json has been written for a_core_freqs and loaded again.
Reloaded == an_pc \in {"loaded", "call_loaded"}

\* The ranks of the file written are 1, 2, ... in the order of the list, and
\* each entry holds the frequency of its rank.
RanksContiguous ==
    /\ Len(recommend.file[1].core_freqs) = Len(a_core_freqs)
    /\ \A i \in DOMAIN a_core_freqs :
           /\ recommend.file[1].core_freqs[i].rank = i
           /\ to_float(recommend.file[1].core_freqs[i].freq_mhz) = a_core_freqs[i]

\* C27 as stated: loading the file written for a core list L returns the
\* frequencies of L in rank order, and the ranks of the file are 1..len(L).
C27_LoadReturnsList ==
    Reloaded =>
        /\ recommend.loaded.out = "returned"
        /\ recommend.loaded.freqs = a_core_freqs
        /\ RanksContiguous

\* C27 (amended): the same for a core list that is not empty; the file
\* written for the empty list has no entry, and loading it ends the scanner
\* with exit status 1.
C27_LoadReturnsNonEmptyList ==
    Reloaded =>
        /\ RanksContiguous
        /\ a_core_freqs # <<>> =>
              /\ recommend.loaded.out = "returned"
              /\ recommend.loaded.freqs = a_core_freqs
        /\ a_core_freqs = <<>> => recommend.loaded.out = "exit"

\* C27 witness: main of the analyzer has written two core frequencies, and
\* the loader has returned them in the order of their ranks.
C27_Witness ==
    /\ an_pc = "loaded"
    /\ Len(a_core_freqs) = 2
    /\ a_core_freqs[1] # a_core_freqs[2]
    /\ recommend.loaded.freqs = a_core_freqs
    /\ recommend.file[1].core_freqs[2].rank = 2

\* The line read is a row of the open section sec: the section stays open,
\* and the line is no header, not blank, no "Total" line and no dashes.
RowOf(sec) ==
    /\ LineRead
    /\ section = sec
    /\ text[pos].head \in {"data", "near", "indented"}

\* A row of the per-radio section has the expected shape.
RadioShape(parts) ==
    Len(parts) >= 5 /\ parts[1].t = "int" /\ parts[2].t = "int"

\* A row of the frequency-totals section has the expected shape.
TotalShape(parts) ==
    Len(parts) = 2 /\ parts[1].t = "int" /\ parts[2].t \in {"int", "dec"}

RECURSIVE GoodChunks(_, _)
\* The frequencies of the chunks of a row from token i on that are numbers.
GoodChunks(parts, i) ==
    IF i > Len(parts) THEN <<>>
    ELSE (IF parts[i].t \in {"int", "dec"} THEN <<to_float(parts[i])>> ELSE <<>>)
         \o GoodChunks(parts, i + 1)

\* C28: a row without the expected shape is passed over: it raises nothing,
\* leaves both tables as they are, and the next line is read; a row of the
\* per-radio section with a chunk that is no number keeps its other chunks.
C28_MalformedRowsSkipped ==
    [][(/\ (RowOf("per_radio") /\ ~RadioShape(text[pos].parts)) =>
              (/\ a_radios' = a_radios
               /\ freq_totals' = freq_totals
               /\ an_pc' = "parse")
        /\ (RowOf("freq_totals") /\ ~TotalShape(text[pos].parts)) =>
              (/\ a_radios' = a_radios
               /\ freq_totals' = freq_totals
               /\ an_pc' = "parse")
        /\ (RowOf("per_radio") /\ RadioShape(text[pos].parts)) =>
              (/\ text[pos].parts[3] \in DOMAIN a_radios'
               /\ a_radios'[text[pos].parts[3]].center_freqs_mhz =
                      GoodChunks(text[pos].parts, 5)
               /\ an_pc' = "parse"))]_vars

\* C28 witness: after the header, a row of four tokens was passed over and
\* the row "3 2 7 SCM FA, x, FC" then gave radio 7 with FA and FC.
C28_Witness ==
    /\ an_pc = "parse"
    /\ pos = 4
    /\ Len(text) >= 3
    /\ text[1].head = "per_radio"
    /\ Len(text[2].parts) = 4 /\ text[2].head = "data"
    /\ \E i \in DOMAIN text[3].parts : text[3].parts[i] = Word("x")
    /\ DOMAIN a_radios = {IntTok(7)}
    /\ a_radios[IntTok(7)].center_freqs_mhz = <<FA, FC>>

\* Of the two ids of the tables, "10" is the lesser string.
IdBelow(x, y) == x = IntTok(10) /\ y = IntTok(7)

\* C29: in the mapping assign_core_to_radios returns, the list of every core
\* frequency is in the order of descending total, and radios of equal total
\* are in the ascending order of their ids as strings.
C29_ListsSorted ==
    Assigned =>
        \A cf \in DOMAIN by_core :
            \A i, j \in DOMAIN by_core[cf] :
                i < j =>
                    LET x == by_core[cf][i]
                        y == by_core[cf][j]
                    IN \/ a_radios[x].total_messages > a_radios[y].total_messages
                       \/ /\ a_radios[x].total_messages = a_radios[y].total_messages
                          /\ IdBelow(x, y)

\* C29 witness: radios "7" and "10" of equal total stand in one list, "10"
\* first.
C29_Witness ==
    /\ Assigned
    /\ \E cf \in DOMAIN by_core :
           /\ by_core[cf] = <<IntTok(10), IntTok(7)>>
           /\ a_radios[IntTok(7)].total_messages =
                  a_radios[IntTok(10)].total_messages

\* The record of line l is accepted: a JSON object with an integer id that
\* the filter lets through.
Accepted(l) == l.kind = "object" /\ l.idk = "int" /\ ~Skipped(l)

\* The accepted records of radio id among the lines read in this cycle.
RecordsOf(id) == SelectSeq(received, LAMBDA l : Accepted(l) /\ l.id = id)

\* From this state to the next, no entry is removed and no count and no
\* frequency counter of an entry goes down.
OnlyGrows ==
    /\ DOMAIN radios \subseteq DOMAIN radios'
    /\ \A id \in DOMAIN radios :
           /\ radios'[id].count >= radios[id].count
           /\ \A f \in DOMAIN radios[id].freqs :
                  /\ f \in DOMAIN radios'[id].freqs
                  /\ radios'[id].freqs[f] >= radios[id].freqs[f]

\* What lines 272-284 do to the entry of the record's radio, line by line.
RecordSteps ==
    /\ (pc = "create" /\ pc' = "count") =>
          (/\ DOMAIN radios' = DOMAIN radios \cup {line.id}
           /\ line.id \notin DOMAIN radios =>
                  (/\ radios'[line.id].count = 0
                   /\ DOMAIN radios'[line.id].freqs = {}))
    /\ (pc = "count" /\ pc' = "type") =>
          radios'[line.id].count = radios[line.id].count + 1
    /\ (pc = "type" /\ pc' = "freqs") =>
          radios'[line.id].type = TypeName(line)
    /\ (pc = "freqs" /\ pc' = "ctot") =>
          (/\ core_freqs[idx] \in DOMAIN radios'[line.id].freqs
           /\ radios'[line.id].freqs[core_freqs[idx]] =
                  Get0(radios[line.id].freqs, core_freqs[idx]) + 1
           /\ radios'[line.id].count = radios[line.id].count)

\* Between two records: every radio has one entry per id seen, its total is
\* the number of its accepted records, and its type is that of the latest.
EntriesAreRecords ==
    (pc = "loop" /\ line = NoLine) =>
        /\ DOMAIN radios = {l.id : l \in {received[i] : i \in
                               {j \in DOMAIN received : Accepted(received[j])}}}
        /\ \A id \in DOMAIN radios :
               /\ radios[id].count = Len(RecordsOf(id))
               /\ radios[id].type =
                      TypeName(RecordsOf(id)[Len(RecordsOf(id))])

\* C30: within a cycle the entries only grow and no count goes down; an
\* accepted record creates the entry of its radio if there is none, adds
\* one to its total and to its counter of the active frequency, and sets its
\* type, which is therefore the type of the radio's latest accepted record.
C30_RadiosOnlyGrow ==
    /\ [][(pc # "cycle") => (OnlyGrows /\ RecordSteps)]_vars
    /\ []EntriesAreRecords

\* C30 witness: two records of radio 1 were accepted, the first of type
\* SCM, the second of type IDM; the entry has total 2 and type IDM.
C30_Witness ==
    /\ pc = "loop"
    /\ line = NoLine
    /\ 1 \in DOMAIN radios
    /\ Len(RecordsOf(1)) = 2
    /\ TypeName(RecordsOf(1)[1]) = "SCM"
    /\ radios[1].count = 2
    /\ radios[1].type = "IDM"

\* The accepted records among the lines read in this cycle.
CycleRecords == SelectSeq(received, Accepted)

\* The tables hold the records read in this cycle and nothing else.
TablesOfThisCycle ==
    /\ SumValues(center_totals) = Len(CycleRecords)
    /\ SumValues(type_totals) = Len(CycleRecords)
    /\ DOMAIN radios = {CycleRecords[i].id : i \in DOMAIN CycleRecords}
    /\ \A id \in DOMAIN radios : radios[id].count = Len(RecordsOf(id))

\* C24: no table is carried from one cycle to the next: every cycle starts
\* with empty radio, frequency-total and type-total tables, and the report of
\* a cycle is written from tables that count the records of that cycle only.
C24_TablesPerCycle ==
    /\ [][(pc = "cycle" /\ pc' # "done") =>
             (/\ radios' = EmptyMap
              /\ center_totals' = EmptyMap
              /\ type_totals' = EmptyMap)]_vars
    /\ [](ReportWritten =>
             (/\ TablesOfThisCycle
              /\ summary[cycle].cycle = cycle
              /\ summary[cycle].text =
                     summary_txt(radios, center_totals, type_totals,
                                 core_freqs)))

\* C24 witness: the first cycle counted a record, and the report of the
\* second cycle, in which no record was accepted, holds no radio.
C24_Witness ==
    /\ ReportWritten
    /\ cycle = 2
    /\ summary[1].text # summary[2].text
    /\ CycleRecords = <<>>
    /\ radios = EmptyMap

\* main is inside a dwell of the current cycle, or between two of them.
InDwells == pc \in DwellPcs \cup {"for"}

\* A report is written in this step.
ReportStep == Len(summary') > Len(summary)

\* C25: the report of a cycle is written after the last dwell of the cycle
\* and before the first dwell of the next; with --once the completed cycle
\* is the only one and main returns after it; without it every completed
\* cycle is followed by the start of the next, unless the operator cancels.
C25_CycleScheduling ==
    /\ [](InDwells => Len(summary) = cycle - 1)
    /\ [](pc = "cycle_end" => Len(summary) = cycle)
    /\ [](once => cycle = 1 /\ run_dirs <= 1)
    /\ [][ReportStep =>
             (/\ pc = "report"
              /\ idx > Len(core_freqs)
              /\ summary' = Append(summary, summary'[cycle])
              /\ summary'[cycle].cycle = cycle
              /\ pc' = "cycle_end")]_vars
    /\ [][(pc = "cycle_end" /\ once) =>
             (pc' = "done" /\ exit' \in {"ok", "interrupted"}
              /\ cycle' = cycle /\ dwells' = dwells)]_vars
    /\ [][(pc = "cycle_end" /\ ~once) =>
             \/ pc' = "cycle" /\ cycle' = cycle + 1 /\ exit' = "running"
             \/ pc' = "done" /\ exit' = "interrupted"]_vars

\* C25 witness: without --once, the report of the first cycle is written
\* and the second cycle is in its first dwell.
C25_Witness ==
    /\ ~once
    /\ cycle = 2
    /\ Len(summary) = 1
    /\ pc = "loop"
    /\ dwells = 2
    /\ run_dirs = 2

\* ---------------------------------------------------------------- C22
\* The numbers among tokens, in their order, as frequencies.
RECURSIVE NumbersOf(_)
NumbersOf(toks) ==
    IF toks = <<>> THEN <<>>
    ELSE IF toks[1].t \in {"int", "dec"}
      THEN <<IF toks[1].t = "dec" THEN toks[1].n ELSE kHz(1000 * toks[1].n)>>
           \o NumbersOf(Tail(toks))
    ELSE NumbersOf(Tail(toks))

\* The list of a recommendation file: the numbers of its entries.
FileList(file) ==
    NumbersOf([i \in DOMAIN file.core_freqs |-> file.core_freqs[i].freq_mhz])

\* main is past line 752.
Resolved ==
    start.stage \notin {"off", "args", "resolve"}

\* resolve_core_freqs_mhz returned.
ResolveReturned ==
    Resolved /\ start.resolved # <<>>

\* C22: resolve_core_freqs_mhz picks the list by precedence.  With a
\* recommendation file given, what it returns is the list of the file,
\* whatever --freqs is, and it returns nothing else: where the file gives no
\* list main ends there.  Without a file, a manual list with at least one
\* valid frequency is returned; otherwise the built-in default is.
C22_Precedence ==
    Resolved =>
      IF start.args.core_json # <<>>
        THEN \/ start.resolved = FileList(start.args.core_json[1])
             \/ /\ FileList(start.args.core_json[1]) = <<>>
                /\ start.resolved = <<>>
                /\ start.stage \in {"exited", "crashed"}
      ELSE IF NumbersOf(start.args.freqs) # <<>>
        THEN start.resolved = NumbersOf(start.args.freqs)
      ELSE start.resolved = default_core_freqs_mhz

\* A file and a manual list are both given, both have a list, the lists
\* differ, and the list of the file was returned.
C22_Witness ==
    /\ start.stage = "window"
    /\ start.args.core_json # <<>>
    /\ NumbersOf(start.args.freqs) # <<>>
    /\ start.resolved = FileList(start.args.core_json[1])
    /\ start.resolved # NumbersOf(start.args.freqs)
    /\ start.resolved # default_core_freqs_mhz

\* ---------------------------------------------------------------- C23
\* The window of the sweep is invalid.
BadWindow == start.args.ism_min_mhz >= start.args.ism_max_mhz

\* The step of the sweep is not positive.
BadStep == start.args.ism_step_khz <= 0

\* The recommendation file is unreadable, malformed, or has no usable entry.
BadFile ==
    /\ start.args.core_json # <<>>
    /\ \/ start.args.core_json[1].kind # "object"
       \/ FileList(start.args.core_json[1]) = <<>>

\* main has ended, and its exit status.
MainEnded == start.stage \in {"exited", "crashed", "returned"} \/ pc = "done"

ExitStatus ==
    IF start.stage \in {"exited", "crashed", "returned"} THEN start.code
    ELSE IF exit = "crashed" THEN 1 ELSE 0

\* No cycle has begun: no run directory, no raw log, no report, no decoder.
NothingScanned ==
    /\ run_dirs = 0
    /\ raw_log = <<>>
    /\ summary = <<>>
    /\ dwells = 0
    /\ pc = "main"

\* main does not come to its dry-run test, its prompt or its loop.
StopsAtChecks ==
    start.stage \in {"args", "resolve", "window", "exited", "crashed"}

\* C23 as stated: with an invalid window, a step that is not positive, or a
\* recommendation file that is unreadable, malformed or without a usable
\* entry, main ends with a status that is not 0, creates no run directory
\* and launches no decoder.
C23_ConfigErrorsFatal ==
    (start.stage # "off" /\ (BadWindow \/ BadStep \/ BadFile)) =>
        /\ NothingScanned
        /\ StopsAtChecks
        /\ MainEnded => ExitStatus # 0

\* C23: an invalid window, or a recommendation file that is unreadable,
\* malformed or without a usable entry, ends main with a status that is not
\* 0 before a run directory is created or a decoder launched.  A step that
\* is not positive is no error: main goes on with a step of 300 kHz.
C23_WindowAndFileFatal ==
    /\ (start.stage # "off" /\ (BadWindow \/ BadFile)) =>
          /\ NothingScanned
          /\ StopsAtChecks
          /\ MainEnded => ExitStatus # 0
    /\ (BadStep /\ start.stage \in {"dry_run", "ask", "enter", "loop",
                                     "returned"}) =>
          /\ start.step_khz = kHz(300)
          /\ (start.stage = "loop" /\ start.args.ism_sweep) =>
                core_freqs = <<start.args.ism_min_mhz>>

\* main has refused an invalid window, after it created the log directory
\* and resolved the list.
C23_Witness ==
    /\ BadWindow
    /\ ~BadFile
    /\ start.stage = "exited"
    /\ start.code = 1
    /\ start.log_dir
    /\ start.resolved # <<>>
    /\ NothingScanned

\* main has refused a recommendation file without a usable entry.
C23_WitnessFile ==
    /\ BadFile
    /\ start.args.core_json[1].kind = "object"
    /\ start.args.core_json[1].core_freqs # <<>>
    /\ start.stage = "exited"
    /\ start.code = 1
    /\ NothingScanned

\* A step of 0 kHz was given and a decoder runs on the sweep.
C23_WitnessStep ==
    /\ BadStep
    /\ start.args.ism_sweep
    /\ start.stage = "loop"
    /\ dwells > 0
    /\ run_dirs > 0

\* ---------------------------------------------------------------- C26
\* The configuration passes the checks of main.
ValidConfig == ~BadWindow /\ ~BadFile

\* main is at line 835 or later.
ChecksPassed ==
    start.stage \in {"dry_run", "ask", "enter", "loop", "returned"}

\* The operator declined the prompt, or aborted it.
Declined == start.answer \in {"n", "EOFError", "KeyboardInterrupt"}

\* C26: with --dry-run and a valid configuration main returns with exit
\* status 0 and starts no cycle: no run directory, raw log or report is
\* created and no decoder launched; and so it is when the operator declines
\* or aborts the prompt of --sanity-check.
C26_DryRunAndDeclineScanNothing ==
    /\ (start.stage # "off" /\ start.args.dry_run) =>
          /\ NothingScanned
          /\ ValidConfig => start.stage \in {"args", "resolve", "window",
                                             "dry_run", "returned"}
          /\ (MainEnded /\ ValidConfig) =>
                (start.stage = "returned" /\ ExitStatus = 0)
    /\ Declined =>
          /\ NothingScanned
          /\ start.stage = "returned"
          /\ ExitStatus = 0

\* main returned on --dry-run with a valid configuration; --sanity-check
\* was given too and the prompt was not shown.
C26_Witness ==
    /\ start.args.dry_run
    /\ start.args.sanity_check
    /\ ValidConfig
    /\ start.stage = "returned"
    /\ start.code = 0
    /\ start.answer = ""
    /\ start.log_dir
    /\ NothingScanned

\* main returned because the operator aborted the prompt.
C26_WitnessAborted ==
    /\ ~start.args.dry_run
    /\ start.answer = "KeyboardInterrupt"
    /\ start.stage = "returned"
    /\ start.code = 0
    /\ NothingScanned

\* ---------------------------------------------------------------- C31
\* This step is one of a read_stderr thread: of the current dwell (a line
\* taken from the pipe, or the thread returning), or of an earlier dwell
\* (a line of a child that still runs echoed or dropped, or the thread
\* returning).
DiagStep ==
    \/ Len(errPipe') < Len(errPipe) /\ dwells' = dwells
    \/ t_err = "running" /\ t_err' = "done"
    \/ errSent' > errSent /\ errPipe' = errPipe
    \/ old_threads' < old_threads

\* This step changes one of the tables of the aggregator.
TableStep == <<radios, center_totals, type_totals>>' #
             <<radios, center_totals, type_totals>>

\* C31: the tables have a single writer.  A step of a read_stderr thread,
\* of the current dwell or of an earlier one, leaves the radio, frequency-
\* total and type-total tables as they are; the tables change only in a
\* step of the decoding loop of the current dwell, at lines 272-287 with a
\* record in hand, or where run_cycle makes new tables for a cycle; and
\* such a step changes nothing of the diagnostic channel.
C31_SingleWriter ==
    /\ [][DiagStep => ~TableStep]_vars
    /\ [][TableStep =>
             (/\ \/ /\ pc \in {"create", "count", "type", "freqs", "ctot",
                               "ttot"}
                      /\ line # NoLine
                      /\ dwells' = dwells
                   \/ /\ pc = "cycle"
                      /\ radios' = EmptyMap
                      /\ center_totals' = EmptyMap
                      /\ type_totals' = EmptyMap
              /\ <<errPipe, errSent, t_err, old_threads, printed>>' =
                   <<errPipe, errSent, t_err, old_threads, printed>>)]_vars

\* A record is being counted in the second dwell while the read_stderr
\* thread of the first dwell, whose child still runs, and the thread of
\* this dwell are both running, and a diagnostic line was echoed.
C31_Witness ==
    /\ pc \in {"type", "freqs", "ctot", "ttot"}
    /\ radios # EmptyMap
    /\ dwells = 2
    /\ orphans > 0
    /\ old_threads > 0
    /\ t_err = "running"
    /\ printed > 0

\* ---------------------------------------------------------------- C32
\* A decoder has been launched.
Launched == proc.state # "none"

\* The type names of the operator's list, in upper case.
UpperCase(p) ==
    CASE p = "scm" -> "SCM"
      [] p = "all" -> "ALL"
      [] OTHER -> p

\* C32 as stated: every decoder is launched with -msgtype=all, whatever the
\* filter of the operator is.
C32_AllTypesAtBoundary ==
    Launched => proc.msgtype = <<"all">>

\* C32: every decoder is launched with the selector that
\* compute_msgtype_config made of --msgtype: "all" when the operator gave
\* none or "all"; otherwise the operator's own list, its pieces without
\* blanks and in the operator's case.  With such a list the internal filter
\* holds the same names in upper case and is applied to the decoded
\* records as well: every radio counted has a type of the list.
C32_FilterPassedToDecoder ==
    /\ Launched => proc.msgtype = msgtype_arg
    /\ msgtype_arg # <<>>
    /\ \A i \in DOMAIN msgtype_arg : msgtype_arg[i] \notin {"", " ", " scm"}
    /\ ~accepted_msgtypes.some => msgtype_arg = <<"all">>
    /\ accepted_msgtypes.some =>
          /\ accepted_msgtypes.types =
                {UpperCase(msgtype_arg[i]) : i \in DOMAIN msgtype_arg}
          /\ \A id \in DOMAIN radios :
                radios[id].type \in accepted_msgtypes.types

\* The decoder runs with -msgtype=scm; a record of another type was read
\* and left out, and a record of type SCM was counted.
C32_Witness ==
    /\ proc.state = "running"
    /\ proc.msgtype = <<"scm">>
    /\ accepted_msgtypes.types = {"SCM"}
    /\ pc = "loop"
    /\ line = NoLine
    /\ Len(received) = 2
    /\ received[1].kind = "object"
    /\ received[1].idk = "int"
    /\ TypeName(received[1]) \notin accepted_msgtypes.types
    /\ DOMAIN radios = {1}
    /\ radios[1].type = "SCM"

\* The list "all," : the decoder is asked for every type and the internal
\* filter lets none of them through.
C32_WitnessAllComma ==
    /\ proc.state = "running"
    /\ proc.msgtype = <<"all">>
    /\ accepted_msgtypes.some
    /\ accepted_msgtypes.types = {"ALL"}
    /\ Len(received) = 2
    /\ radios = EmptyMap

====
